---------------------------- MODULE Spec2Model ----------------------------
(***************************************************************************)
(* Model of the interaction core of yew_node_graph: the Graph data model   *)
(* (state/graph_impls.rs), the PanZoom transform and the gesture payloads  *)
(* (state/ui_state.rs) and the GraphEditorState operations                 *)
(* (state/graph_editor.rs).                                                *)
(*                                                                         *)
(* Numbers.  f32 values are modelled as exact rationals <<n, d>> in lowest *)
(* terms.  Every scalar the model feeds in is a small dyadic rational      *)
(* (integers, zoom a power of two), for which the f32 operations of the    *)
(* code are exact, so the rational result is the f32 result.               *)
(*                                                                         *)
(* Ids.  NodeId / InputId / OutputId are slotmap keys <<idx, version>>.    *)
(* SlotMap and SecondaryMap are modelled with their slot reuse and their   *)
(* version checks.                                                         *)
(***************************************************************************)
EXTENDS Integers, Sequences, FiniteSets, TLC

VARIABLES
    graph,            \* GraphEditorState::graph  (nodes, inputs, outputs, connections)
    selected_nodes,   \* GraphEditorState::selected_nodes : HashSet<NodeId>
    node_positions,   \* GraphEditorState::node_positions : SecondaryMap<NodeId, Vec2>
    port_refs,        \* GraphEditorState::port_refs : PortsData<NodeRef>
    node_finder,      \* GraphEditorState::node_finder
    pan_zoom,         \* GraphEditorState::pan_zoom
    drag_state,       \* GraphEditorState::drag_state : Option<DragState>
    event_listener,   \* the component's drag listeners: Option<[EventListener; 2]>
    panicked,         \* TRUE once an operation has panicked (the program has stopped)
    cloned            \* the clone() of the GraphEditorState the embedder holds, if any

vars == <<graph, selected_nodes, node_positions, port_refs, node_finder,
          pan_zoom, drag_state, event_listener, panicked, cloned>>

----------------------------------------------------------------------------
(* Bounds of the model                                                     *)

\* how many nodes are ever created (live or deleted)
MaxCreated == 2

\* how many input ports are ever added; of output ports, one fewer
MaxParams == 3

----------------------------------------------------------------------------
(* Option<T>                                                               *)

None == [tag |-> "None"]
Some(x) == [tag |-> "Some", val |-> x]
Unit == [tag |-> "Unit"]

----------------------------------------------------------------------------
(* f32 as exact rationals, glam::Vec2 as a pair of them                    *)

Abs(n) == IF n < 0 THEN -n ELSE n

RECURSIVE Gcd(_, _)
Gcd(a, b) == IF b = 0 THEN a ELSE Gcd(b, a % b)

\* the rational n/d (d # 0) in lowest terms with a positive denominator
Rat(n, d) ==
    LET g == Gcd(Abs(n), Abs(d))
        s == IF d < 0 THEN -1 ELSE 1
    IN  <<(s * n) \div g, (s * d) \div g>>

R(n) == <<n, 1>>
RAdd(a, b) == Rat(a[1] * b[2] + b[1] * a[2], a[2] * b[2])
RNeg(a) == <<-a[1], a[2]>>
RSub(a, b) == RAdd(a, RNeg(b))
RMul(a, b) == Rat(a[1] * b[1], a[2] * b[2])
RDiv(a, b) == Rat(a[1] * b[2], a[2] * b[1])
RLt(a, b) == a[1] * b[2] < b[1] * a[2]
RMin(a, b) == IF RLt(b, a) THEN b ELSE a
RMax(a, b) == IF RLt(a, b) THEN b ELSE a

vec2(x, y) == <<R(x), R(y)>>
ZERO == vec2(0, 0)
VAdd(a, b) == <<RAdd(a[1], b[1]), RAdd(a[2], b[2])>>
VSub(a, b) == <<RSub(a[1], b[1]), RSub(a[2], b[2])>>
VNeg(a) == <<RNeg(a[1]), RNeg(a[2])>>
VScale(s, a) == <<RMul(s, a[1]), RMul(s, a[2])>>
VMin(a, b) == <<RMin(a[1], b[1]), RMin(a[2], b[2])>>
VMax(a, b) == <<RMax(a[1], b[1]), RMax(a[2], b[2])>>
\* a faulty variant of cmplt_all: less than or equal
cmple_all(a, b) == ~RLt(b[1], a[1]) /\ ~RLt(b[2], a[2])

\* a.cmplt(b).all()
cmplt_all(a, b) == RLt(a[1], b[1]) /\ RLt(a[2], b[2])

----------------------------------------------------------------------------
(* PanZoom (state/ui_state.rs)                                             *)

PanZoomDefault == [pan |-> ZERO, zoom |-> R(1)]

\* impl Mul<Vec2> for PanZoom
MulVec(pz, v) == VAdd(VScale(pz.zoom, v), pz.pan)

\* a faulty variant of MulPanZoom: the right-hand pan is not scaled
MulPanZoom_unscaled(a, b) ==
    [pan |-> VAdd(a.pan, b.pan), zoom |-> RMul(a.zoom, b.zoom)]

\* impl Mul<PanZoom> for PanZoom
MulPanZoom(a, b) ==
    [pan |-> VAdd(a.pan, VScale(a.zoom, b.pan)), zoom |-> RMul(a.zoom, b.zoom)]

\* a faulty variant of inverse: the pan is negated and not scaled
inverse_unscaled(pz) ==
    [pan |-> VNeg(pz.pan), zoom |-> RDiv(R(1), pz.zoom)]

inverse(pz) ==
    LET iz == RDiv(R(1), pz.zoom)
    IN  [pan |-> VScale(iz, VNeg(pz.pan)), zoom |-> iz]

logical2screen(pz, pos) == MulVec(pz, pos)

\* a faulty variant of screen2logical: it divides by the zoom and forgets the pan
screen2logical_no_pan(pz, pos) == VScale(RDiv(R(1), pz.zoom), pos)

screen2logical(pz, pos) == MulVec(inverse(pz), pos)

from_zoom_to_pos(zoom, pos) ==
    [zoom |-> zoom, pan |-> VScale(RSub(R(1), zoom), pos)]

\* a faulty variant of zoom_to_pos: the zoom about the anchor is applied
\* after the transform instead of before it
zoom_to_pos_after(pz, zoom, logical_pos) ==
    MulPanZoom(from_zoom_to_pos(zoom, logical_pos), pz)

zoom_to_pos(pz, zoom, logical_pos) ==
    MulPanZoom(pz, from_zoom_to_pos(zoom, logical_pos))

pan_screen(pz, delta) == [pz EXCEPT !.pan = VAdd(@, delta)]

pan_logical(pz, delta) == [pz EXCEPT !.pan = VAdd(@, VScale(pz.zoom, delta))]


----------------------------------------------------------------------------
(* slotmap::SlotMap<K, V>.  A key is <<idx, version>>; the version of an   *)
(* occupied slot is odd, that of a vacant slot even.  Vacant slots form a  *)
(* LIFO free list through next_free.  (The sentinel slot 0 of the crate is *)
(* left out: slot indices start at 1 here as they do there.)               *)

SlotMapNew == [slots |-> <<>>, free_head |-> 1]

\* the key the next insert_with_key hands to its closure
sm_next_key(m) ==
    IF m.free_head <= Len(m.slots)
    THEN <<m.free_head, m.slots[m.free_head].version + 1>>
    ELSE <<Len(m.slots) + 1, 1>>

\* insert_with_key(|k| value): value is what the closure built for sm_next_key(m)
sm_insert(m, value) ==
    LET k == sm_next_key(m) IN
    IF m.free_head <= Len(m.slots)
    THEN [slots |-> [m.slots EXCEPT ![k[1]] =
                        [version |-> k[2], occupied |-> TRUE, value |-> value,
                         next_free |-> 0]],
          free_head |-> m.slots[k[1]].next_free]
    ELSE [slots |-> Append(m.slots,
                        [version |-> 1, occupied |-> TRUE, value |-> value,
                         next_free |-> 0]),
          free_head |-> k[1] + 1]

sm_contains(m, k) ==
    /\ k[1] \in 1..Len(m.slots)
    /\ m.slots[k[1]].occupied
    /\ m.slots[k[1]].version = k[2]

\* get(k).unwrap(): only used where sm_contains(m, k) has been established
sm_value(m, k) == m.slots[k[1]].value

sm_remove(m, k) ==
    IF sm_contains(m, k)
    THEN [slots |-> [m.slots EXCEPT ![k[1]] =
                        [version |-> k[2] + 1, occupied |-> FALSE, value |-> None,
                         next_free |-> m.free_head]],
          free_head |-> k[1]]
    ELSE m

sm_set(m, k, value) == [m EXCEPT !.slots[k[1]].value = value]

sm_keys(m) ==
    {<<i, m.slots[i].version>> : i \in {j \in 1..Len(m.slots) : m.slots[j].occupied}}

----------------------------------------------------------------------------
(* slotmap::SecondaryMap<K, V>: a function from slot index to              *)
(* [version, value]; it knows nothing of removals from the primary map.    *)

SecondaryMapNew == [i \in {} |-> None]

sec_contains(m, k) == k[1] \in DOMAIN m /\ m[k[1]].version = k[2]

sec_value(m, k) == m[k[1]].value

\* get(k): Option<V>
sec_get(m, k) == IF sec_contains(m, k) THEN Some(sec_value(m, k)) ELSE None

\* a faulty variant of insert: an entry already in the slot stays, whatever
\* its version
sec_insert_vacant(m, k, v) ==
    IF k[1] \in DOMAIN m
    THEN m
    ELSE [i \in DOMAIN m \cup {k[1]} |->
            IF i = k[1] THEN [version |-> k[2], value |-> v] ELSE m[i]]

\* insert(k, v): an entry of an older version in the slot is evicted, an
\* entry of a newer version wins and the insert is dropped
sec_insert(m, k, v) ==
    IF k[1] \in DOMAIN m /\ m[k[1]].version > k[2]
    THEN m
    ELSE [i \in DOMAIN m \cup {k[1]} |->
            IF i = k[1] THEN [version |-> k[2], value |-> v] ELSE m[i]]

sec_remove(m, k) ==
    IF sec_contains(m, k) THEN [i \in DOMAIN m \ {k[1]} |-> m[i]] ELSE m

sec_keys(m) == {<<i, m[i].version>> : i \in DOMAIN m}

\* the keys in iteration order (ascending slot index)
RECURSIVE KeySeq(_)
KeySeq(K) ==
    IF K = {} THEN <<>>
    ELSE LET k == CHOOSE x \in K : \A y \in K : x[1] <= y[1]
         IN  <<k>> \o KeySeq(K \ {k})

----------------------------------------------------------------------------
(* Graph (state/graph_impls.rs)                                            *)

\* Graph::new
GraphNew ==
    [nodes |-> SlotMapNew, inputs |-> SlotMapNew, outputs |-> SlotMapNew,
     connections |-> SecondaryMapNew]

\* Node::input_ids / Node::output_ids
input_ids(node) == [j \in 1..Len(node.inputs) |-> node.inputs[j][2]]
output_ids(node) == [j \in 1..Len(node.outputs) |-> node.outputs[j][2]]

Range(f) == {f[x] : x \in DOMAIN f}

\* a faulty variant of add_input_param: the new port goes to the front of the
\* node's list
add_input_param_front(g, node_id, name, typ) ==
    LET input_id == sm_next_key(g.inputs)
        node == sm_value(g.nodes, node_id)
    IN  [graph |->
            [g EXCEPT
               !.inputs = sm_insert(@, [id |-> input_id, typ |-> typ, node |-> node_id]),
               !.nodes = sm_set(@, node_id,
                            [node EXCEPT !.inputs = <<<<name, input_id>>>> \o @])],
         id |-> input_id]

\* Graph::add_input_param.  value, kind and shown_inline of the InputParam
\* are display data no operation reads; they are left out.
add_input_param(g, node_id, name, typ) ==
    LET input_id == sm_next_key(g.inputs)
        node == sm_value(g.nodes, node_id)
    IN  [graph |->
            [g EXCEPT
               !.inputs = sm_insert(@, [id |-> input_id, typ |-> typ, node |-> node_id]),
               !.nodes = sm_set(@, node_id,
                            [node EXCEPT !.inputs = Append(@, <<name, input_id>>)])],
         id |-> input_id]

\* Graph::add_output_param
add_output_param(g, node_id, name, typ) ==
    LET output_id == sm_next_key(g.outputs)
        node == sm_value(g.nodes, node_id)
    IN  [graph |->
            [g EXCEPT
               !.outputs = sm_insert(@, [id |-> output_id, typ |-> typ, node |-> node_id]),
               !.nodes = sm_set(@, node_id,
                            [node EXCEPT !.outputs = Append(@, <<name, output_id>>)])],
         id |-> output_id]

----------------------------------------------------------------------------
(* The embedder's node templates (NodeTemplateTrait): what build_node adds *)
(* to a fresh node.  "Add" has an input and an output of the same type, so *)
(* that a matching pair and a same-node pair exist; "Txt" has an input of  *)
(* another type and no output, so that a mismatching pair exists.          *)

Templates == {"Add", "Txt"}

TemplateInputs(t) ==
    IF t = "Add" THEN << <<"a", "Number">> >> ELSE << <<"s", "String">> >>

TemplateOutputs(t) ==
    IF t = "Add" THEN << <<"out", "Number">> >> ELSE <<>>

RECURSIVE add_inputs(_, _, _)
add_inputs(g, node_id, ps) ==
    IF ps = <<>> THEN g
    ELSE add_inputs(add_input_param(g, node_id, Head(ps)[1], Head(ps)[2]).graph,
                    node_id, Tail(ps))

RECURSIVE add_outputs(_, _, _)
add_outputs(g, node_id, ps) ==
    IF ps = <<>> THEN g
    ELSE add_outputs(add_output_param(g, node_id, Head(ps)[1], Head(ps)[2]).graph,
                     node_id, Tail(ps))

\* NodeTemplateTrait::build_node, the closure create_node passes to add_node
build_node(g, t, node_id) ==
    add_outputs(add_inputs(g, node_id, TemplateInputs(t)), node_id, TemplateOutputs(t))

\* Graph::add_node(label, user_data, f) with f = build_node of template t
add_node(g, t) ==
    LET node_id == sm_next_key(g.nodes)
        g1 == [g EXCEPT !.nodes =
                 sm_insert(@, [id |-> node_id, label |-> t,
                               inputs |-> <<>>, outputs |-> <<>>])]
    IN  [graph |-> build_node(g1, t, node_id), id |-> node_id]

\* a faulty variant of the closure below: it looks at the input's node only,
\* so an edge leaving the node by an output survives
EdgeOfNode_input_only(g, i, node_id) ==
    LET ik == <<i, g.connections[i].version>>
    IN  IF ~sm_contains(g.inputs, ik) THEN "panic"
        ELSE IF sm_value(g.inputs, ik).node = node_id THEN "remove"
        ELSE "keep"

\* the closure of the retain in remove_node, for the entry of slot i:
\* "panic" when it indexes a removed port, else whether the edge goes
EdgeOfNode(g, i, node_id) ==
    LET ik == <<i, g.connections[i].version>>
        o == g.connections[i].value
    IN  IF ~sm_contains(g.outputs, o) THEN "panic"
        ELSE IF sm_value(g.outputs, o).node = node_id THEN "remove"
        ELSE IF ~sm_contains(g.inputs, ik) THEN "panic"
        ELSE IF sm_value(g.inputs, ik).node = node_id THEN "remove"
        ELSE "keep"

RECURSIVE sm_remove_all(_, _)
sm_remove_all(m, ks) ==
    IF ks = <<>> THEN m ELSE sm_remove_all(sm_remove(m, Head(ks)), Tail(ks))

\* a faulty variant of remove_node: an edge is reported once for each of its
\* ends that lies on the node
remove_node_per_end(g, node_id) ==
    LET hit == {i \in DOMAIN g.connections : EdgeOfNode(g, i, node_id) = "remove"}
        bad == {i \in DOMAIN g.connections : EdgeOfNode(g, i, node_id) = "panic"}
        events == [j \in 1..Cardinality(hit) |->
                     LET ik == KeySeq({<<i, g.connections[i].version>> : i \in hit})[j]
                     IN  <<ik, g.connections[ik[1]].value>>]
        both == SelectSeq(events,
                    LAMBDA e : /\ sm_value(g.inputs, e[1]).node = node_id
                               /\ sm_value(g.outputs, e[2]).node = node_id)
        conn == [i \in DOMAIN g.connections \ hit |-> g.connections[i]]
    IN  IF bad # {} THEN [graph |-> g, panic |-> TRUE, node |-> None, disconnected |-> <<>>]
        ELSE IF ~sm_contains(g.nodes, node_id)
        THEN [graph |-> [g EXCEPT !.connections = conn], panic |-> TRUE,
              node |-> None, disconnected |-> <<>>]
        ELSE LET node == sm_value(g.nodes, node_id) IN
             [graph |-> [nodes |-> sm_remove(g.nodes, node_id),
                         inputs |-> sm_remove_all(g.inputs, input_ids(node)),
                         outputs |-> sm_remove_all(g.outputs, output_ids(node)),
                         connections |-> conn],
              panic |-> FALSE, node |-> node, disconnected |-> events \o both]

\* Graph::remove_node.  panic: an edge of the map references a removed port
\* (the closure's index panics) or node_id is not in the graph
\* (self[node_id] panics, after the retain).
remove_node(g, node_id) ==
    LET hit == {i \in DOMAIN g.connections : EdgeOfNode(g, i, node_id) = "remove"}
        bad == {i \in DOMAIN g.connections : EdgeOfNode(g, i, node_id) = "panic"}
        events == [j \in 1..Cardinality(hit) |->
                     LET ik == KeySeq({<<i, g.connections[i].version>> : i \in hit})[j]
                     IN  <<ik, g.connections[ik[1]].value>>]
        conn == [i \in DOMAIN g.connections \ hit |-> g.connections[i]]
    IN  IF bad # {} THEN [graph |-> g, panic |-> TRUE, node |-> None, disconnected |-> <<>>]
        ELSE IF ~sm_contains(g.nodes, node_id)
        THEN [graph |-> [g EXCEPT !.connections = conn], panic |-> TRUE,
              node |-> None, disconnected |-> <<>>]
        ELSE LET node == sm_value(g.nodes, node_id) IN
             [graph |-> [nodes |-> sm_remove(g.nodes, node_id),
                         inputs |-> sm_remove_all(g.inputs, input_ids(node)),
                         outputs |-> sm_remove_all(g.outputs, output_ids(node)),
                         connections |-> conn],
              panic |-> FALSE, node |-> node, disconnected |-> events]

\* a faulty variant of remove_input_param: the edge into the port stays
remove_input_param_keep_edge(g, param) ==
    IF ~sm_contains(g.inputs, param) THEN [graph |-> g, panic |-> TRUE]
    ELSE LET node_id == sm_value(g.inputs, param).node IN
         IF ~sm_contains(g.nodes, node_id) THEN [graph |-> g, panic |-> TRUE]
         ELSE LET node == sm_value(g.nodes, node_id) IN
              [graph |->
                  [g EXCEPT
                     !.nodes = sm_set(@, node_id,
                                 [node EXCEPT !.inputs =
                                     SelectSeq(@, LAMBDA e : e[2] # param)]),
                     !.inputs = sm_remove(@, param)],
               panic |-> FALSE]

\* Graph::remove_input_param.  panic: the port is not in the arena
\* (inputs[param]) or its node is not (nodes[node_id]).
remove_input_param(g, param) ==
    IF ~sm_contains(g.inputs, param) THEN [graph |-> g, panic |-> TRUE]
    ELSE LET node_id == sm_value(g.inputs, param).node IN
         IF ~sm_contains(g.nodes, node_id) THEN [graph |-> g, panic |-> TRUE]
         ELSE LET node == sm_value(g.nodes, node_id) IN
              [graph |->
                  [g EXCEPT
                     !.nodes = sm_set(@, node_id,
                                 [node EXCEPT !.inputs =
                                     SelectSeq(@, LAMBDA e : e[2] # param)]),
                     !.inputs = sm_remove(@, param),
                     !.connections =
                         [i \in {j \in DOMAIN @ : <<j, @[j].version>> # param} |-> @[i]]],
               panic |-> FALSE]

\* a faulty variant of remove_output_param: of the edges the port drives only
\* the first one goes
remove_output_param_first_edge(g, param) ==
    IF ~sm_contains(g.outputs, param) THEN [graph |-> g, panic |-> TRUE]
    ELSE LET node_id == sm_value(g.outputs, param).node IN
         IF ~sm_contains(g.nodes, node_id) THEN [graph |-> g, panic |-> TRUE]
         ELSE LET node == sm_value(g.nodes, node_id)
                  driven == {j \in DOMAIN g.connections : g.connections[j].value = param}
                  first == {j \in driven : \A k \in driven : j <= k}
              IN
              [graph |->
                  [g EXCEPT
                     !.nodes = sm_set(@, node_id,
                                 [node EXCEPT !.outputs =
                                     SelectSeq(@, LAMBDA e : e[2] # param)]),
                     !.outputs = sm_remove(@, param),
                     !.connections = [i \in DOMAIN @ \ first |-> @[i]]],
               panic |-> FALSE]

\* Graph::remove_output_param
remove_output_param(g, param) ==
    IF ~sm_contains(g.outputs, param) THEN [graph |-> g, panic |-> TRUE]
    ELSE LET node_id == sm_value(g.outputs, param).node IN
         IF ~sm_contains(g.nodes, node_id) THEN [graph |-> g, panic |-> TRUE]
         ELSE LET node == sm_value(g.nodes, node_id) IN
              [graph |->
                  [g EXCEPT
                     !.nodes = sm_set(@, node_id,
                                 [node EXCEPT !.outputs =
                                     SelectSeq(@, LAMBDA e : e[2] # param)]),
                     !.outputs = sm_remove(@, param),
                     !.connections =
                         [i \in {j \in DOMAIN @ : @[j].value # param} |-> @[i]]],
               panic |-> FALSE]

\* Graph::remove_connection
remove_connection(g, input_id) ==
    [graph |-> [g EXCEPT !.connections = sec_remove(@, input_id)],
     ret |-> sec_get(g.connections, input_id)]

\* Graph::add_connection
add_connection(g, output, input) ==
    [g EXCEPT !.connections = sec_insert(@, input, output)]

\* Graph::connection
connection(g, input) == sec_get(g.connections, input)

\* Result<T, EguiGraphError> and the two errors the lookups construct
ResultOk(v) == [tag |-> "Ok", val |-> v]
ResultErr(e) == [tag |-> "Err", err |-> e]
InvalidParameterId(param) == [tag |-> "InvalidParameterId", param |-> param]
NoParameterNamed(node_id, name) ==
    [tag |-> "NoParameterNamed", node_id |-> node_id, name |-> name]

\* SlotMap::get
sm_get(m, k) == IF sm_contains(m, k) THEN Some(sm_value(m, k)) ELSE None

\* impl Index<NodeId> for Graph: graph[node_id]
index_node(g, node_id) ==
    IF sm_contains(g.nodes, node_id)
    THEN [ret |-> sm_value(g.nodes, node_id), panic |-> FALSE]
    ELSE [ret |-> None, panic |-> TRUE]

\* a faulty variant of Graph::get_input: it looks at the slot of the key and
\* not at the key's version
get_input_by_slot(g, input) ==
    IF input[1] \in 1..Len(g.inputs.slots) /\ g.inputs.slots[input[1]].occupied
    THEN Some(g.inputs.slots[input[1]].value) ELSE None

\* Graph::get_input
get_input(g, input) == sm_get(g.inputs, input)

\* Graph::get_output
get_output(g, output) == sm_get(g.outputs, output)

\* Graph::any_param_type
any_param_type(g, param) ==
    LET p == IF param.tag = "Input" THEN sm_get(g.inputs, param.id)
             ELSE sm_get(g.outputs, param.id)
    IN  IF p.tag = "Some" THEN ResultOk(p.val.typ)
        ELSE ResultErr(InvalidParameterId(param))

\* iter().find(|(param_name, _id)| param_name == name).map(|x| x.1)
RECURSIVE find_named(_, _)
find_named(ps, name) ==
    IF ps = <<>> THEN None
    ELSE IF Head(ps)[1] = name THEN Some(Head(ps)[2])
    ELSE find_named(Tail(ps), name)

\* Node::get_input
node_get_input(node, name) ==
    LET f == find_named(node.inputs, name) IN
    IF f.tag = "Some" THEN ResultOk(f.val)
    ELSE ResultErr(NoParameterNamed(node.id, name))

\* Node::get_output
node_get_output(node, name) ==
    LET f == find_named(node.outputs, name) IN
    IF f.tag = "Some" THEN ResultOk(f.val)
    ELSE ResultErr(NoParameterNamed(node.id, name))

\* Graph::param_typ_eq; it indexes both arenas, so it panics on a removed port
param_typ_eq_panics(g, output, input) ==
    ~sm_contains(g.outputs, output) \/ ~sm_contains(g.inputs, input)

param_typ_eq(g, output, input) ==
    sm_value(g.outputs, output).typ = sm_value(g.inputs, input).typ

----------------------------------------------------------------------------
(* AnyParameterId, ConnectTo, ConnectionInProgress, DragState              *)
(* (state/id_type.rs, state/ui_state.rs)                                   *)

Input(id) == [tag |-> "Input", id |-> id]
Output(id) == [tag |-> "Output", id |-> id]

ToIdOf(id) == [tag |-> "Id", id |-> id]
ToPos(pos) == [tag |-> "Pos", pos |-> pos]

FromInput(src, dest) == [tag |-> "FromInput", src |-> src, dest |-> dest]
FromOutput(src, dest) == [tag |-> "FromOutput", src |-> src, dest |-> dest]

SelectBox(start, end) == [tag |-> "SelectBox", start |-> start, end |-> end]
Pan(prev_pos) == [tag |-> "Pan", prev_pos |-> prev_pos]
MoveNodeState(id, shift) == [tag |-> "MoveNode", id |-> id, shift |-> shift]
ConnectPort(c) == [tag |-> "ConnectPort", c |-> c]

\* the pair of listeners set_drag_event installs (mouseup on the document,
\* mousemove on the graph element), named by the gesture whose handlers they
\* carry
Listeners(gesture) == [tag |-> "EventListener", gesture |-> gesture]

\* ConnectionInProgress::to_id
to_id(c, id) ==
    IF c.tag = "FromInput" /\ id.tag = "Output" THEN [c EXCEPT !.dest = ToIdOf(id.id)]
    ELSE IF c.tag = "FromOutput" /\ id.tag = "Input" THEN [c EXCEPT !.dest = ToIdOf(id.id)]
    ELSE c

\* ConnectionInProgress::to_pos
to_pos(c, pos) == [c EXCEPT !.dest = ToPos(pos)]

\* ConnectionInProgress::pair: Some(<<output, input>>) when the free end is snapped
pair(c) ==
    IF c.dest.tag = "Id"
    THEN IF c.tag = "FromInput" THEN Some(<<c.dest.id, c.src>>)
         ELSE Some(<<c.src, c.dest.id>>)
    ELSE None

\* ConnectionInProgress::pair_with
pair_with(c, id) ==
    IF c.tag = "FromInput" /\ id.tag = "Output" THEN Some(<<id.id, c.src>>)
    ELSE IF c.tag = "FromOutput" /\ id.tag = "Input" THEN Some(<<c.src, id.id>>)
    ELSE None

\* impl From<(AnyParameterId, Vec2)> / From<(OutputId, Vec2)> / From<(InputId, Vec2)>
connection_from(id, pos) ==
    IF id.tag = "Input" THEN FromInput(id.id, ToPos(pos))
    ELSE FromOutput(id.id, ToPos(pos))

\* PortsData::get
ports_get(pd, key) ==
    IF key.tag = "Input" THEN sec_get(pd.input, key.id) ELSE sec_get(pd.output, key.id)

----------------------------------------------------------------------------
(* GraphEditorState (state/graph_editor.rs).  An operation maps the state  *)
(* record s to [s: the state after it, ret: what it returns, panic].       *)

Ok(s, ret) == [s |-> s, ret |-> ret, panic |-> FALSE]
Panic(s) == [s |-> s, ret |-> None, panic |-> TRUE]

\* the NodeRef create_node registers: not attached to an element yet
DefaultNodeRef == [tag |-> "NodeRef"]

\* GraphEditorState::default
EditorDefault ==
    [graph |-> GraphNew,
     selected_nodes |-> {},
     node_positions |-> SecondaryMapNew,
     port_refs |-> [input |-> SecondaryMapNew, output |-> SecondaryMapNew],
     node_finder |-> [pos |-> ZERO, is_showing |-> FALSE],
     pan_zoom |-> PanZoomDefault,
     drag_state |-> None]

exclusive_select(s, node_id) == [s EXCEPT !.selected_nodes = {node_id}]

inclusive_select(s, node_id) == [s EXCEPT !.selected_nodes = @ \cup {node_id}]

unselect(s, node_id) == [s EXCEPT !.selected_nodes = @ \ {node_id}]

\* a faulty variant of selection: with shift it only ever adds
selection_no_toggle(s, id, is_shift_key_pressed) ==
    IF is_shift_key_pressed THEN inclusive_select(s, id) ELSE exclusive_select(s, id)

selection(s, id, is_shift_key_pressed) ==
    IF is_shift_key_pressed
    THEN IF id \in s.selected_nodes THEN unselect(s, id) ELSE inclusive_select(s, id)
    ELSE exclusive_select(s, id)

RECURSIVE sec_insert_all(_, _, _)
sec_insert_all(m, ks, v) ==
    IF ks = <<>> THEN m ELSE sec_insert_all(sec_insert(m, Head(ks), v), Tail(ks), v)

RECURSIVE sec_remove_all(_, _)
sec_remove_all(m, ks) ==
    IF ks = <<>> THEN m ELSE sec_remove_all(sec_remove(m, Head(ks)), Tail(ks))

\* a faulty variant of create_node: the new node becomes the whole selection
create_node_exclusive(s, template) ==
    LET r == add_node(s.graph, template)
        new_node == r.id
        pos == screen2logical(s.pan_zoom, s.node_finder.pos)
        node == sm_value(r.graph.nodes, new_node)
    IN  Ok([s EXCEPT
              !.graph = r.graph,
              !.node_positions = sec_insert(@, new_node, pos),
              !.selected_nodes = {new_node},
              !.port_refs =
                  [input |-> sec_insert_all(@.input, input_ids(node), DefaultNodeRef),
                   output |-> sec_insert_all(@.output, output_ids(node), DefaultNodeRef)]],
           new_node)

create_node(s, template) ==
    LET r == add_node(s.graph, template)
        new_node == r.id
        pos == screen2logical(s.pan_zoom, s.node_finder.pos)
        node == sm_value(r.graph.nodes, new_node)
    IN  Ok([s EXCEPT
              !.graph = r.graph,
              !.node_positions = sec_insert(@, new_node, pos),
              !.selected_nodes = @ \cup {new_node},
              !.port_refs =
                  [input |-> sec_insert_all(@.input, input_ids(node), DefaultNodeRef),
                   output |-> sec_insert_all(@.output, output_ids(node), DefaultNodeRef)]],
           new_node)

\* a faulty variant of delete_node: the node stays in the selection and its
\* output ports in the registry
delete_node_leaky(s, node_id) ==
    LET r == remove_node(s.graph, node_id)
    IN  IF r.panic THEN Panic([s EXCEPT !.graph = r.graph])
        ELSE Ok([s EXCEPT
                   !.graph = r.graph,
                   !.port_refs.input = sec_remove_all(@, input_ids(r.node))],
                [node |-> r.node, disconnected |-> r.disconnected])

delete_node(s, node_id) ==
    LET s1 == [s EXCEPT !.selected_nodes = @ \ {node_id}]
        r == remove_node(s.graph, node_id)
    IN  IF r.panic THEN Panic([s1 EXCEPT !.graph = r.graph])
        ELSE Ok([s1 EXCEPT
                   !.graph = r.graph,
                   !.port_refs =
                       [input |-> sec_remove_all(@.input, input_ids(r.node)),
                        output |-> sec_remove_all(@.output, output_ids(r.node))]],
                [node |-> r.node, disconnected |-> r.disconnected])

open_node_finder(s, pos) ==
    [s EXCEPT !.node_finder = [pos |-> pos, is_showing |-> TRUE]]

\* a faulty variant of start_moving_node: it starts the gesture for any node
start_moving_node_any(s, id, shift) ==
    [s EXCEPT !.drag_state = Some(MoveNodeState(id, shift))]

start_moving_node(s, id, shift) ==
    IF id \in s.selected_nodes
    THEN [s EXCEPT !.drag_state = Some(MoveNodeState(id, shift))]
    ELSE s

\* move_node.  node_positions[id] panics for an id without a position;
\* the positions are left as they were in that case (the order in which the
\* HashSet is walked, hence how far the loop got, is unspecified).
move_node(s, pos) ==
    IF s.drag_state.tag = "Some" /\ s.drag_state.val.tag = "MoveNode"
    THEN LET id == s.drag_state.val.id
             p == VSub(pos, s.drag_state.val.shift)
         IN  IF ~sec_contains(s.node_positions, id) THEN Panic(s)
             ELSE LET selected_pos == sec_value(s.node_positions, id)
                      drag_delta == VSub(screen2logical(s.pan_zoom, p), selected_pos)
                  IN  IF \E n \in s.selected_nodes : ~sec_contains(s.node_positions, n)
                      THEN Panic(s)
                      ELSE LET np == s.node_positions IN
                           Ok([s EXCEPT !.node_positions =
                                 [i \in DOMAIN np |->
                                    IF <<i, np[i].version>> \in s.selected_nodes
                                    THEN [version |-> np[i].version,
                                          value |-> VAdd(np[i].value, drag_delta)]
                                    ELSE np[i]]],
                              Some(drag_delta))
    ELSE Ok(s, None)

end_moving_node(s) == [s EXCEPT !.drag_state = None]

\* a faulty variant of start_connection: grabbing a connected input leaves
\* the edge in the graph
start_connection_keep_edge(s, id, center, offset) ==
    LET pos == IF ports_get(s.port_refs, id).tag = "Some" /\ center.tag = "Some"
                  /\ offset.tag = "Some"
               THEN VSub(center.val, offset.val) ELSE ZERO
    IN  IF id.tag = "Input" /\ sec_contains(s.graph.connections, id.id)
        THEN LET output == sec_value(s.graph.connections, id.id) IN
             Ok([s EXCEPT !.drag_state =
                    Some(ConnectPort(connection_from(Output(output), pos)))],
                Some(<<output, id.id>>))
        ELSE Ok([s EXCEPT !.drag_state = Some(ConnectPort(connection_from(id, pos)))],
                None)

\* a faulty variant of start_connection: the gesture that takes an edge off
\* an input starts snapped to that input
start_connection_snapped(s, id, center, offset) ==
    LET p0 == IF ports_get(s.port_refs, id).tag = "Some" THEN center ELSE None
        pos == IF p0.tag = "Some" /\ offset.tag = "Some"
               THEN VSub(p0.val, offset.val) ELSE ZERO
    IN  IF id.tag = "Input"
        THEN IF sec_contains(s.graph.connections, id.id)
             THEN LET output == sec_value(s.graph.connections, id.id) IN
                  Ok([s EXCEPT
                        !.graph.connections = sec_remove(@, id.id),
                        !.drag_state = Some(ConnectPort(
                            to_id(connection_from(Output(output), pos), id)))],
                     Some(<<output, id.id>>))
             ELSE Ok([s EXCEPT
                        !.drag_state = Some(ConnectPort(connection_from(id, pos)))],
                     None)
        ELSE Ok([s EXCEPT !.drag_state = Some(ConnectPort(connection_from(id, pos)))],
                None)

\* start_connection.  center is what get_center gives for the port's NodeRef
\* and offset what get_offset gives for graph_ref: both come from the DOM.
start_connection(s, id, center, offset) ==
    LET p0 == IF ports_get(s.port_refs, id).tag = "Some" THEN center ELSE None
        pos == IF p0.tag = "Some" /\ offset.tag = "Some"
               THEN VSub(p0.val, offset.val) ELSE ZERO
    IN  IF id.tag = "Input"
        THEN IF sec_contains(s.graph.connections, id.id)
             THEN LET output == sec_value(s.graph.connections, id.id) IN
                  Ok([s EXCEPT
                        !.graph.connections = sec_remove(@, id.id),
                        !.drag_state = Some(ConnectPort(connection_from(Output(output), pos)))],
                     Some(<<output, id.id>>))
             ELSE Ok([s EXCEPT
                        !.drag_state = Some(ConnectPort(connection_from(id, pos)))],
                     None)
        ELSE Ok([s EXCEPT !.drag_state = Some(ConnectPort(connection_from(id, pos)))],
                None)

\* a faulty variant of move_connection: the pointer drags a snapped end away
move_connection_unsnap(s, pos) ==
    IF s.drag_state.tag = "Some" /\ s.drag_state.val.tag = "ConnectPort"
    THEN [s EXCEPT !.drag_state.val.c.dest = ToPos(pos)]
    ELSE s

\* move_connection
move_connection(s, pos) ==
    IF /\ s.drag_state.tag = "Some"
       /\ s.drag_state.val.tag = "ConnectPort"
       /\ s.drag_state.val.c.dest.tag = "Pos"
    THEN [s EXCEPT !.drag_state.val.c.dest.pos = pos]
    ELSE s

\* a faulty variant of end_connection: an input that has an edge keeps it
end_connection_keep_first(s) ==
    LET s1 == [s EXCEPT !.drag_state = None] IN
    IF s.drag_state.tag = "Some" /\ s.drag_state.val.tag = "ConnectPort"
    THEN LET p == pair(s.drag_state.val.c) IN
         IF p.tag = "Some"
         THEN LET output == p.val[1]
                  input == p.val[2]
              IN  IF param_typ_eq_panics(s.graph, output, input) THEN Panic(s1)
                  ELSE IF param_typ_eq(s.graph, output, input)
                  THEN IF sec_contains(s.graph.connections, input)
                       THEN Ok(s1, Some(<<output, input>>))
                       ELSE Ok([s1 EXCEPT !.graph.connections = sec_insert(@, input, output)],
                               Some(<<output, input>>))
                  ELSE Ok(s1, None)
         ELSE Ok(s1, None)
    ELSE Ok(s1, None)

\* a faulty variant of end_connection: the node of the input it connects
\* becomes the selection
end_connection_select(s) ==
    LET s1 == [s EXCEPT !.drag_state = None] IN
    IF s.drag_state.tag = "Some" /\ s.drag_state.val.tag = "ConnectPort"
    THEN LET p == pair(s.drag_state.val.c) IN
         IF p.tag = "Some"
         THEN LET output == p.val[1]
                  input == p.val[2]
              IN  IF param_typ_eq_panics(s.graph, output, input) THEN Panic(s1)
                  ELSE IF param_typ_eq(s.graph, output, input)
                  THEN Ok([s1 EXCEPT !.graph.connections = sec_insert(@, input, output),
                                     !.selected_nodes =
                                         {sm_value(s.graph.inputs, input).node}],
                          Some(<<output, input>>))
                  ELSE Ok(s1, None)
         ELSE Ok(s1, None)
    ELSE Ok(s1, None)

end_connection(s) ==
    LET s1 == [s EXCEPT !.drag_state = None] IN
    IF s.drag_state.tag = "Some" /\ s.drag_state.val.tag = "ConnectPort"
    THEN LET p == pair(s.drag_state.val.c) IN
         IF p.tag = "Some"
         THEN LET output == p.val[1]
                  input == p.val[2]
              IN  IF param_typ_eq_panics(s.graph, output, input) THEN Panic(s1)
                  ELSE IF param_typ_eq(s.graph, output, input)
                  THEN Ok([s1 EXCEPT !.graph.connections = sec_insert(@, input, output)],
                          Some(<<output, input>>))
                  ELSE Ok(s1, None)
         ELSE Ok(s1, None)
    ELSE Ok(s1, None)

start_select_box(s, start) == [s EXCEPT !.drag_state = Some(SelectBox(start, start))]

\* a faulty variant of scale_select_box: outside the box-select gesture it
\* opens a box that ends where the pointer is
scale_select_box_any(s, end) ==
    IF s.drag_state.tag = "Some" /\ s.drag_state.val.tag = "SelectBox"
    THEN [s EXCEPT !.drag_state.val.end = end]
    ELSE [s EXCEPT !.drag_state = Some(SelectBox(end, end))]

scale_select_box(s, end) ==
    IF s.drag_state.tag = "Some" /\ s.drag_state.val.tag = "SelectBox"
    THEN [s EXCEPT !.drag_state.val.end = end]
    ELSE s

\* a faulty variant of end_select_box: it takes the drag state only when it
\* is a SelectBox
end_select_box_matched_only(s) ==
    IF s.drag_state.tag = "Some" /\ s.drag_state.val.tag = "SelectBox"
    THEN LET start == s.drag_state.val.start
             end == s.drag_state.val.end
             min == screen2logical(s.pan_zoom, VMin(start, end))
             max == screen2logical(s.pan_zoom, VMax(start, end))
         IN  [s EXCEPT !.drag_state = None,
                       !.selected_nodes =
                @ \cup {k \in sec_keys(s.node_positions) :
                          /\ cmplt_all(min, sec_value(s.node_positions, k))
                          /\ cmplt_all(sec_value(s.node_positions, k), max)}]
    ELSE s

\* a faulty variant of end_select_box: the nodes in the box replace the
\* selection
end_select_box_replace(s) ==
    LET s1 == [s EXCEPT !.drag_state = None] IN
    IF s.drag_state.tag = "Some" /\ s.drag_state.val.tag = "SelectBox"
    THEN LET start == s.drag_state.val.start
             end == s.drag_state.val.end
             min == screen2logical(s.pan_zoom, VMin(start, end))
             max == screen2logical(s.pan_zoom, VMax(start, end))
         IN  [s1 EXCEPT !.selected_nodes =
                {k \in sec_keys(s.node_positions) :
                          /\ cmplt_all(min, sec_value(s.node_positions, k))
                          /\ cmplt_all(sec_value(s.node_positions, k), max)}]
    ELSE s1

end_select_box(s) ==
    LET s1 == [s EXCEPT !.drag_state = None] IN
    IF s.drag_state.tag = "Some" /\ s.drag_state.val.tag = "SelectBox"
    THEN LET start == s.drag_state.val.start
             end == s.drag_state.val.end
             min == screen2logical(s.pan_zoom, VMin(start, end))
             max == screen2logical(s.pan_zoom, VMax(start, end))
         IN  [s1 EXCEPT !.selected_nodes =
                @ \cup {k \in sec_keys(s.node_positions) :
                          /\ cmplt_all(min, sec_value(s.node_positions, k))
                          /\ cmplt_all(sec_value(s.node_positions, k), max)}]
    ELSE s1

----------------------------------------------------------------------------
(* The GraphEditor component (components/graph_editor.rs): its callbacks and *)
(* the handlers of the drag listeners it installs, as operations on the     *)
(* state record.                                                            *)

\* node_callback, NodeEvent::MouseDown: the state part
node_mousedown(s, id, shift, shift_key) ==
    start_moving_node(selection(s, id, shift_key), id, shift)

\* the mousemove listener of the node gesture: move_node(..).unwrap()
node_mousemove(s, mouse_pos) ==
    LET r == move_node(s, mouse_pos) IN
    IF ~r.panic /\ r.ret = None THEN Panic(r.s) ELSE r

\* background_event, BackgroundEvent::MouseDown with button 0: the state part
select_mousedown(s, pos, is_shift_key_pressed) ==
    start_select_box(
        [s EXCEPT !.node_finder.is_showing = FALSE,
                  !.selected_nodes = IF is_shift_key_pressed THEN @ ELSE {}],
        pos)

\* background_event, BackgroundEvent::ContextMenu
background_contextmenu(s, pos) ==
    [s EXCEPT !.node_finder = [pos |-> pos, is_showing |-> TRUE]]

\* background_event, BackgroundEvent::MouseDown: the state part.  Button 0
\* starts the select box, button 1 the pan, any other button does nothing.
background_mousedown(s, button, pos, is_shift_key_pressed) ==
    IF button = 0 THEN select_mousedown(s, pos, is_shift_key_pressed)
    ELSE IF button = 1
    THEN [s EXCEPT !.node_finder.is_showing = FALSE, !.drag_state = Some(Pan(pos))]
    ELSE s

\* a faulty variant of finder_callback: the finder stays open
finder_callback_open(s, template) == create_node(s, template)

\* finder_callback: the finder closes and the chosen template is created
finder_callback(s, template) ==
    create_node([s EXCEPT !.node_finder.is_showing = FALSE], template)

\* a faulty variant of pan_mousemove: the pointer's displacement is taken in
\* logical units (PanZoom::pan_logical)
pan_mousemove_logical(s, view_pos) ==
    IF s.drag_state.tag = "Some" /\ s.drag_state.val.tag = "Pan"
    THEN LET delta == VSub(view_pos, s.drag_state.val.prev_pos) IN
         [s EXCEPT !.pan_zoom = pan_logical(@, delta),
                   !.drag_state.val.prev_pos = view_pos]
    ELSE s

\* the mousemove listener of the pan gesture
pan_mousemove(s, view_pos) ==
    IF s.drag_state.tag = "Some" /\ s.drag_state.val.tag = "Pan"
    THEN LET delta == VSub(view_pos, s.drag_state.val.prev_pos) IN
         [s EXCEPT !.pan_zoom.pan = VAdd(@, delta),
                   !.drag_state.val.prev_pos = view_pos]
    ELSE s

\* the step of one wheel event and the range the zoom is kept in
WheelStep == Rat(1, 10)

ZoomMin == Rat(1, 10)

ZoomMax == R(2)

\* a faulty variant of wheel: the range test is missing
wheel_unclamped(s, sign_negative, pos) ==
    LET zoom == RAdd(s.pan_zoom.zoom,
                     IF sign_negative THEN WheelStep ELSE RNeg(WheelStep))
        logical_pos == screen2logical(s.pan_zoom, pos)
    IN  [s EXCEPT !.pan_zoom =
            zoom_to_pos(@, RDiv(zoom, s.pan_zoom.zoom), logical_pos)]

\* background_event, BackgroundEvent::Wheel{delta_y, pos}; sign_negative is
\* delta_y.is_sign_negative()
wheel(s, sign_negative, pos) ==
    LET zoom == RAdd(s.pan_zoom.zoom,
                     IF sign_negative THEN WheelStep ELSE RNeg(WheelStep))
    IN  IF ~RLt(zoom, ZoomMin) /\ ~RLt(ZoomMax, zoom)
        THEN LET logical_pos == screen2logical(s.pan_zoom, pos) IN
             [s EXCEPT !.pan_zoom =
                 zoom_to_pos(@, RDiv(zoom, s.pan_zoom.zoom), logical_pos)]
        ELSE s

\* GraphEditorResponse::DeleteNode and GraphEditorResponse::DisconnectEvent
ResponseDeleteNode(node_id, node) ==
    [tag |-> "DeleteNode", node_id |-> node_id, node |-> node]
ResponseDisconnectEvent(output, input) ==
    [tag |-> "DisconnectEvent", output |-> output, input |-> input]

\* GraphEditorResponse::ConnectEventStarted and ConnectEventEnded
ResponseConnectEventStarted(node, id) ==
    [tag |-> "ConnectEventStarted", node |-> node, id |-> id]
ResponseConnectEventEnded(output, input) ==
    [tag |-> "ConnectEventEnded", output |-> output, input |-> input]

\* port_callback, PortEvent::MouseDown: ret is the sequence of responses the
\* handler emits.  panic: graph[input] / graph[output] on a removed port.
port_mousedown(s, id, center, offset) ==
    LET r == start_connection(s, id, center, offset)
        live == IF id.tag = "Input" THEN sm_contains(r.s.graph.inputs, id.id)
                ELSE sm_contains(r.s.graph.outputs, id.id)
        node == IF id.tag = "Input" THEN sm_value(r.s.graph.inputs, id.id).node
                ELSE sm_value(r.s.graph.outputs, id.id).node
    IN  IF ~live THEN Panic(r.s)
        ELSE IF r.ret.tag = "Some"
        THEN Ok(r.s, <<ResponseDisconnectEvent(r.ret.val[1], r.ret.val[2]),
                       ResponseConnectEventStarted(node, id)>>)
        ELSE Ok(r.s, <<ResponseConnectEventStarted(node, id)>>)

\* a faulty variant of the mouseup listener of the port gesture: it commits
\* and tells nobody
port_mouseup_silent(s) ==
    LET r == end_connection(s) IN
    IF r.panic THEN r ELSE Ok(r.s, <<>>)

\* the mouseup listener of the port gesture: ret is the sequence of
\* responses it emits
port_mouseup(s) ==
    LET r == end_connection(s) IN
    IF r.panic THEN r
    ELSE IF r.ret.tag = "Some"
    THEN Ok(r.s, <<ResponseConnectEventEnded(r.ret.val[1], r.ret.val[2])>>)
    ELSE Ok(r.s, <<>>)

\* the mousemove listener installed for a gesture
drag_mousemove(s, gesture, pos) ==
    CASE gesture = "MoveNode" -> node_mousemove(s, pos)
      [] gesture = "ConnectPort" -> Ok(move_connection(s, pos), Unit)
      [] gesture = "SelectBox" -> Ok(scale_select_box(s, pos), Unit)
      [] gesture = "Pan" -> Ok(pan_mousemove(s, pos), Unit)

\* the document mouseup listener installed for a gesture: the state part (each
\* of them then takes the listeners)
drag_mouseup(s, gesture) ==
    CASE gesture = "MoveNode" -> Ok(end_moving_node(s), Unit)
      [] gesture = "ConnectPort" -> port_mouseup(s)
      [] gesture = "SelectBox" -> Ok(end_select_box(s), Unit)
      [] gesture = "Pan" -> Ok(s, Unit)

\* a faulty variant of the Delete handler: the disconnections are announced
\* before the deletion
node_delete_last(s, id) ==
    LET r == delete_node(s, id) IN
    IF r.panic THEN r
    ELSE Ok(r.s,
            [j \in 1..Len(r.ret.disconnected) |->
                ResponseDisconnectEvent(r.ret.disconnected[j][2], r.ret.disconnected[j][1])]
            \o <<ResponseDeleteNode(id, r.ret.node)>>)

\* node_callback, NodeEvent::Delete: ret is the sequence of responses the
\* handler emits through callback
node_delete(s, id) ==
    LET r == delete_node(s, id) IN
    IF r.panic THEN r
    ELSE Ok(r.s,
            <<ResponseDeleteNode(id, r.ret.node)>>
            \o [j \in 1..Len(r.ret.disconnected) |->
                  ResponseDisconnectEvent(r.ret.disconnected[j][2], r.ret.disconnected[j][1])])

\* port_callback, PortEvent::MouseEnter and MouseLeave: the indexing of the
\* two ports of pair_with panics on a removed port
is_able_to_connect_panics(s, id) ==
    LET p == pair_with(s.drag_state.val.c, id) IN
    /\ p.tag = "Some"
    /\ \/ ~sm_contains(s.graph.outputs, p.val[1])
       \/ ~sm_contains(s.graph.inputs, p.val[2])

\* port_callback, PortEvent::MouseEnter and MouseLeave: is_able_to_connect
is_able_to_connect(s, id) ==
    LET p == pair_with(s.drag_state.val.c, id) IN
    /\ p.tag = "Some"
    /\ sm_value(s.graph.outputs, p.val[1]).node # sm_value(s.graph.inputs, p.val[2]).node
    /\ param_typ_eq(s.graph, p.val[1], p.val[2])

\* a faulty variant of the MouseEnter handler: every port snaps
port_mouseenter_ungated(s, id) ==
    IF s.drag_state.tag = "Some" /\ s.drag_state.val.tag = "ConnectPort"
    THEN Ok([s EXCEPT !.drag_state.val.c = to_id(@, id)], Unit)
    ELSE Ok(s, Unit)

\* port_callback, PortEvent::MouseEnter
port_mouseenter(s, id) ==
    IF s.drag_state.tag = "Some" /\ s.drag_state.val.tag = "ConnectPort"
    THEN IF is_able_to_connect_panics(s, id) THEN Panic(s)
         ELSE IF is_able_to_connect(s, id)
              THEN Ok([s EXCEPT !.drag_state.val.c = to_id(@, id)], Unit)
              ELSE Ok(s, Unit)
    ELSE Ok(s, Unit)

\* port_callback, PortEvent::MouseLeave.  center is what get_center gives for
\* the port's NodeRef and offset what get_offset gives for graph_ref.
port_mouseleave(s, id, center, offset) ==
    LET p0 == IF ports_get(s.port_refs, id).tag = "Some" THEN center ELSE None
        port_pos == IF p0.tag = "Some" /\ offset.tag = "Some"
                    THEN VSub(p0.val, offset.val) ELSE ZERO
    IN  IF s.drag_state.tag = "Some" /\ s.drag_state.val.tag = "ConnectPort"
        THEN IF is_able_to_connect_panics(s, id) THEN Panic(s)
             ELSE IF is_able_to_connect(s, id)
                  THEN Ok([s EXCEPT !.drag_state.val.c = to_pos(@, port_pos)], Unit)
                  ELSE Ok(s, Unit)
        ELSE Ok(s, Unit)

\* the rendering of the nodes: node_positions[id] for every key of
\* graph.nodes, and in each Node component graph.inputs[id] /
\* graph.outputs[id] and ports_ref.borrow()[id] for every port of its lists.
\* TRUE when one of these indexings panics.
render_nodes_panics(s) ==
    \E id \in sm_keys(s.graph.nodes) :
        \/ ~sec_contains(s.node_positions, id)
        \/ \E i \in Range(input_ids(sm_value(s.graph.nodes, id))) :
              ~sm_contains(s.graph.inputs, i) \/ ~sec_contains(s.port_refs.input, i)
        \/ \E o \in Range(output_ids(sm_value(s.graph.nodes, id))) :
              ~sm_contains(s.graph.outputs, o) \/ ~sec_contains(s.port_refs.output, o)

\* src_dest_pos, one end: the centre of the port's NodeRef less the offset,
\* the zero vector when the port has no NodeRef or the NodeRef no centre
port_pos(s, key, center, offset) ==
    LET p0 == IF ports_get(s.port_refs, key).tag = "Some" THEN center ELSE None
    IN  IF p0.tag = "Some" THEN VSub(p0.val, offset) ELSE ZERO

\* ConnectTo::map_pos over the port positions
dest_pos(s, dest, key, center, offset) ==
    IF dest.tag = "Id" THEN port_pos(s, key, center, offset) ELSE dest.pos

\* GraphEditorState::connection_in_progress.  src_center and dest_center are
\* what get_center gives for the NodeRefs of the two ports, offset what
\* get_offset gives for graph_ref.  panic: graph.inputs[src] /
\* graph.outputs[src] on a removed port.
connection_in_progress(s, src_center, dest_center, offset) ==
    IF /\ s.drag_state.tag = "Some" /\ s.drag_state.val.tag = "ConnectPort"
       /\ offset.tag = "Some"
    THEN LET c == s.drag_state.val.c IN
         IF c.tag = "FromInput"
         THEN LET src_p == port_pos(s, Input(c.src), src_center, offset.val)
                  dest_p == dest_pos(s, c.dest,
                                IF c.dest.tag = "Id" THEN Output(c.dest.id) ELSE None,
                                dest_center, offset.val)
              IN  IF ~sm_contains(s.graph.inputs, c.src) THEN Panic(s)
                  ELSE Ok(s, Some(<<dest_p, src_p, sm_value(s.graph.inputs, c.src).typ>>))
         ELSE LET src_p == port_pos(s, Output(c.src), src_center, offset.val)
                  dest_p == dest_pos(s, c.dest,
                                IF c.dest.tag = "Id" THEN Input(c.dest.id) ELSE None,
                                dest_center, offset.val)
              IN  IF ~sm_contains(s.graph.outputs, c.src) THEN Panic(s)
                  ELSE Ok(s, Some(<<src_p, dest_p, sm_value(s.graph.outputs, c.src).typ>>))
    ELSE Ok(s, None)

\* GraphEditorState::select_box
select_box(s) ==
    IF s.drag_state.tag = "Some" /\ s.drag_state.val.tag = "SelectBox"
    THEN Ok(s, Some(<<s.drag_state.val.start, s.drag_state.val.end>>))
    ELSE Ok(s, None)

----------------------------------------------------------------------------
(* What the environment feeds in                                           *)

\* pointer positions (screen space)
Points == {vec2(0, 0), vec2(4, 2)}

\* where the node finder is opened (screen space); (2, 1) lies strictly inside
\* the box spanned by the two pointer positions
FinderPoints == {vec2(0, 0), vec2(2, 1)}

\* the pointer's offset from the node's origin at mouse-down
Shifts == {vec2(0, 0), vec2(2, 1)}

\* get_center of a port's NodeRef: None until the view has attached it
Centers == {None, Some(vec2(6, 4))}

\* get_offset of graph_ref
Offsets == {None, Some(vec2(2, 2))}

\* MouseEvent::button of a mouse-down on the background: 0 main, 1 middle,
\* 2 secondary
Buttons == {0, 1, 2}

\* the pan/zoom the editor runs under (a public field; the operations of
\* GraphEditorState never change it)
PanZooms ==
    {PanZoomDefault,
     [pan |-> vec2(2, 2), zoom |-> R(2)],
     [pan |-> vec2(-2, 0), zoom |-> Rat(1, 2)]}

\* node positions stay in [-MaxCoord, MaxCoord] on both axes
MaxCoord == 4

InRange(v) ==
    /\ ~RLt(v[1], R(-MaxCoord)) /\ ~RLt(R(MaxCoord), v[1])
    /\ ~RLt(v[2], R(-MaxCoord)) /\ ~RLt(R(MaxCoord), v[2])

\* the pan stays in [-MaxPan, MaxPan] on both axes, on the grid of fractions
\* whose denominator is at most MaxDen
MaxPan == 6

MaxDen == 10

InView(pz) ==
    /\ ~RLt(pz.pan[1], R(-MaxPan)) /\ ~RLt(R(MaxPan), pz.pan[1])
    /\ ~RLt(pz.pan[2], R(-MaxPan)) /\ ~RLt(R(MaxPan), pz.pan[2])
    /\ pz.pan[1][2] <= MaxDen /\ pz.pan[2][2] <= MaxDen

\* the factors zoom_to_pos is called with and the displacements pan_screen
\* and pan_logical are called with
ZoomFactors == {Rat(1, 2), R(2)}

Deltas == {vec2(2, 1), vec2(-1, -2)}

\* calls of zoom_to_pos keep the zoom in [1 / MaxZoom, MaxZoom]
MaxZoom == 4

ZoomBounded(pz) ==
    ~RLt(pz.zoom, Rat(1, MaxZoom)) /\ ~RLt(R(MaxZoom), pz.zoom)

----------------------------------------------------------------------------
(* The state machine                                                       *)

\* the editor state as one record
S ==
    [graph |-> graph, selected_nodes |-> selected_nodes,
     node_positions |-> node_positions, port_refs |-> port_refs,
     node_finder |-> node_finder, pan_zoom |-> pan_zoom, drag_state |-> drag_state]

\* The fields of GraphEditorState that are Rc<T>: graph, selected_nodes and
\* node_positions.  #[derive(Clone)] copies the pointers, so the state and its
\* clone hold the same allocations until one of them writes.
RcFields == {"graph", "selected_nodes", "node_positions"}

\* an Rc<T> field as two holders see it: the allocations, and the one each
\* holder points to (one allocation while they share it)
RcOf(mine, theirs, shared) ==
    IF shared THEN [cells |-> <<mine>>, me |-> 1, them |-> 1]
    ELSE [cells |-> <<mine, theirs>>, me |-> 1, them |-> 2]

\* Rc::strong_count of allocation p
strong_count(rc, p) == Cardinality({h \in {"me", "them"} : rc[h] = p})

\* a faulty variant of Rc::make_mut: the allocation is handed out as it is,
\* whoever else holds it
make_mut_shared(rc) == rc

\* Rc::make_mut by holder me: an allocation somebody else holds too is copied
\* into a new one, which me then points to
make_mut(rc) ==
    IF strong_count(rc, rc.me) = 1 THEN rc
    ELSE [cells |-> Append(rc.cells, rc.cells[rc.me]),
          me |-> Len(rc.cells) + 1, them |-> rc.them]

\* holder me writes v through Rc::make_mut: what the other holder reads
\* afterwards, and whether the two still share the allocation
rc_write(mine, v, theirs, shared) ==
    LET rc == make_mut(RcOf(mine, theirs, shared))
        after == [rc EXCEPT !.cells[rc.me] = v]
    IN  [theirs |-> after.cells[after.them], shared |-> after.me = after.them]

\* holder me went from state old to state new by one operation: field f as
\* the other holder has it afterwards.  Every write of an operation to these
\* fields goes through Rc::make_mut; a field the operation left as it was is
\* left shared.
rc_after(f, old, new, theirs, shared) ==
    IF new[f] = old[f] THEN [theirs |-> theirs, shared |-> shared]
    ELSE rc_write(old[f], new[f], theirs, shared)

\* the clone the embedder holds after the editor state went from old to new:
\* s is the clone, shared tells which Rc fields the two still share, own is
\* what each holder's own operations left in its Rc fields.  port_refs is an
\* Rc<RefCell<..>>: the two always share it.
cloned_after(c, old, new) ==
    IF c = None THEN None
    ELSE Some([s |-> [c.val.s EXCEPT
                        !.graph = rc_after("graph", old, new, @, c.val.shared.graph).theirs,
                        !.selected_nodes =
                            rc_after("selected_nodes", old, new, @,
                                     c.val.shared.selected_nodes).theirs,
                        !.node_positions =
                            rc_after("node_positions", old, new, @,
                                     c.val.shared.node_positions).theirs,
                        !.port_refs = new.port_refs],
               shared |-> [f \in RcFields |->
                             rc_after(f, old, new, c.val.s[f], c.val.shared[f]).shared],
               own |-> [c.val.own EXCEPT !.orig = [f \in RcFields |-> new[f]]]])

\* the state after an operation: r = [s, ret, panic]
\* the state after a call, l being the drag listeners the component holds
\* afterwards
CommitListener(r, l) ==
    /\ graph' = r.s.graph
    /\ selected_nodes' = r.s.selected_nodes
    /\ node_positions' = r.s.node_positions
    /\ port_refs' = r.s.port_refs
    /\ node_finder' = r.s.node_finder
    /\ pan_zoom' = r.s.pan_zoom
    /\ drag_state' = r.s.drag_state
    /\ event_listener' = l
    /\ panicked' = r.panic
    /\ cloned' = cloned_after(cloned, S, r.s)

\* the state after a call of an operation of GraphEditorState
Commit(r) == CommitListener(r, event_listener)

LiveNodes == sm_keys(graph.nodes)
LiveInputs == sm_keys(graph.inputs)
LiveOutputs == sm_keys(graph.outputs)
LivePorts == {Input(i) : i \in LiveInputs} \cup {Output(o) : o \in LiveOutputs}

\* how many nodes were ever created: the versions handed out so far
Created ==
    LET sl == graph.nodes.slots
        count(i) == (sl[i].version + 1) \div 2
        RECURSIVE sum(_)
        sum(i) == IF i = 0 THEN 0 ELSE count(i) + sum(i - 1)
    IN  sum(Len(sl))

\* the state after GraphEditorState::default()
Init ==
    /\ graph = EditorDefault.graph
    /\ selected_nodes = EditorDefault.selected_nodes
    /\ node_positions = EditorDefault.node_positions
    /\ port_refs = EditorDefault.port_refs
    /\ node_finder = EditorDefault.node_finder
    /\ pan_zoom = EditorDefault.pan_zoom
    /\ drag_state = EditorDefault.drag_state
    /\ event_listener = None
    /\ panicked = FALSE
    /\ cloned = None

\* the default state with the public field pan_zoom set by the embedder
InitPanZoom ==
    /\ graph = EditorDefault.graph
    /\ selected_nodes = EditorDefault.selected_nodes
    /\ node_positions = EditorDefault.node_positions
    /\ port_refs = EditorDefault.port_refs
    /\ node_finder = EditorDefault.node_finder
    /\ pan_zoom \in PanZooms
    /\ drag_state = EditorDefault.drag_state
    /\ event_listener = None
    /\ panicked = FALSE
    /\ cloned = None

CreateNode(t) ==
    /\ ~panicked
    /\ Created < MaxCreated
    /\ Commit(create_node(S, t))

DeleteNode(n) ==
    /\ ~panicked
    /\ Commit(delete_node(S, n))

Selection(n, shift_key) ==
    /\ ~panicked
    /\ Commit(Ok(selection(S, n, shift_key), Unit))

OpenNodeFinder(p) ==
    /\ ~panicked
    /\ Commit(Ok(open_node_finder(S, p), Unit))

StartMovingNode(n, shift) ==
    /\ ~panicked
    /\ Commit(Ok(start_moving_node(S, n, shift), Unit))

MoveNode(p) ==
    /\ ~panicked
    /\ LET r == move_node(S, p) IN
       /\ \A k \in sec_keys(r.s.node_positions) : InRange(sec_value(r.s.node_positions, k))
       /\ Commit(r)

EndMovingNode ==
    /\ ~panicked
    /\ Commit(Ok(end_moving_node(S), Unit))

StartConnection(id, center, offset) ==
    /\ ~panicked
    /\ Commit(start_connection(S, id, center, offset))

MoveConnection(p) ==
    /\ ~panicked
    /\ Commit(Ok(move_connection(S, p), Unit))

\* the view snaps the free end to a port: ConnectionInProgress::to_id
SnapConnection(id) ==
    /\ ~panicked
    /\ drag_state.tag = "Some" /\ drag_state.val.tag = "ConnectPort"
    /\ Commit(Ok([S EXCEPT !.drag_state.val.c = to_id(@, id)], Unit))

\* the view releases the free end: ConnectionInProgress::to_pos
UnsnapConnection(p) ==
    /\ ~panicked
    /\ drag_state.tag = "Some" /\ drag_state.val.tag = "ConnectPort"
    /\ Commit(Ok([S EXCEPT !.drag_state.val.c = to_pos(@, p)], Unit))

EndConnection ==
    /\ ~panicked
    /\ Commit(end_connection(S))

StartSelectBox(p) ==
    /\ ~panicked
    /\ Commit(Ok(start_select_box(S, p), Unit))

ScaleSelectBox(p) ==
    /\ ~panicked
    /\ Commit(Ok(scale_select_box(S, p), Unit))

EndSelectBox ==
    /\ ~panicked
    /\ Commit(Ok(end_select_box(S), Unit))

AddConnection(output, input) ==
    /\ ~panicked
    /\ Commit(Ok([S EXCEPT !.graph = add_connection(@, output, input)], Unit))

RemoveConnection(input) ==
    /\ ~panicked
    /\ LET r == remove_connection(graph, input) IN
       Commit(Ok([S EXCEPT !.graph = r.graph], r.ret))

\* the background mouse-down with the middle button
\* (components/graph_editor.rs): it starts the pan gesture
PanStart(p) ==
    /\ ~panicked
    /\ CommitListener(Ok([S EXCEPT !.node_finder.is_showing = FALSE,
                                   !.drag_state = Some(Pan(p))], Unit),
                      Some(Listeners("Pan")))

\* node_callback, NodeEvent::MouseDown
NodeMouseDown(id, shift, shift_key) ==
    /\ ~panicked
    /\ CommitListener(Ok(node_mousedown(S, id, shift, shift_key), Unit),
                      Some(Listeners("MoveNode")))

\* port_callback, PortEvent::MouseDown
PortMouseDown(id, center, offset) ==
    /\ ~panicked
    /\ CommitListener(port_mousedown(S, id, center, offset),
                      Some(Listeners("ConnectPort")))

\* background_event, BackgroundEvent::MouseDown: button 0 starts the select
\* box, button 1 the pan, any other button does nothing
BackgroundMouseDown(button, pos, is_shift_key_pressed) ==
    /\ ~panicked
    /\ CommitListener(Ok(background_mousedown(S, button, pos, is_shift_key_pressed), Unit),
                      IF button = 0 THEN Some(Listeners("SelectBox"))
                      ELSE IF button = 1 THEN Some(Listeners("Pan"))
                      ELSE event_listener)

\* a mousemove on the graph element while drag listeners are installed
DragMouseMove(pos) ==
    /\ ~panicked
    /\ event_listener.tag = "Some"
    /\ LET r == drag_mousemove(S, event_listener.val.gesture, pos) IN
       /\ \A k \in sec_keys(r.s.node_positions) : InRange(sec_value(r.s.node_positions, k))
       /\ InView(r.s.pan_zoom)
       /\ Commit(r)

\* a mouseup on the document while drag listeners are installed; the handler
\* ends with event_listener.take()
DragMouseUp ==
    /\ ~panicked
    /\ event_listener.tag = "Some"
    /\ LET r == drag_mouseup(S, event_listener.val.gesture) IN
       CommitListener(r, IF r.panic THEN event_listener ELSE None)

\* background_event, BackgroundEvent::Wheel
Wheel(sign_negative, pos) ==
    /\ ~panicked
    /\ LET s1 == wheel(S, sign_negative, pos) IN
       /\ InView(s1.pan_zoom)
       /\ Commit(Ok(s1, Unit))

\* finder_callback: the finder closes and the chosen template is created
FinderSelect(t) ==
    /\ ~panicked
    /\ Created < MaxCreated
    /\ Commit(finder_callback(S, t))

\* background_event, BackgroundEvent::ContextMenu
BackgroundContextMenu(pos) ==
    /\ ~panicked
    /\ Commit(Ok(background_contextmenu(S, pos), Unit))

\* port_callback, PortEvent::MouseEnter
PortMouseEnter(id) ==
    /\ ~panicked
    /\ Commit(port_mouseenter(S, id))

\* port_callback, PortEvent::MouseLeave
PortMouseLeave(id, center, offset) ==
    /\ ~panicked
    /\ Commit(port_mouseleave(S, id, center, offset))

\* node_callback, NodeEvent::Delete
NodeDelete(n) ==
    /\ ~panicked
    /\ Commit(node_delete(S, n))

\* how many keys an arena has handed out so far
Allocated(m) ==
    LET count(i) == (m.slots[i].version + 1) \div 2
        RECURSIVE sum(_)
        sum(i) == IF i = 0 THEN 0 ELSE count(i) + sum(i - 1)
    IN  sum(Len(m.slots))

\* GraphEditorState::clone (derived): the embedder takes a clone
Clone ==
    /\ ~panicked
    /\ cloned = None
    /\ cloned' = Some([s |-> S,
                       shared |-> [f \in RcFields |-> TRUE],
                       own |-> [orig |-> [f \in RcFields |-> S[f]],
                                copy |-> [f \in RcFields |-> S[f]]]])
    /\ UNCHANGED <<graph, selected_nodes, node_positions, port_refs, node_finder,
                   pan_zoom, drag_state, event_listener, panicked>>

\* the state after a call of an operation on the clone: r is its result there
OnClone(r) ==
    LET c == cloned.val IN
    /\ graph' = rc_after("graph", c.s, r.s, graph, c.shared.graph).theirs
    /\ selected_nodes' =
          rc_after("selected_nodes", c.s, r.s, selected_nodes,
                   c.shared.selected_nodes).theirs
    /\ node_positions' =
          rc_after("node_positions", c.s, r.s, node_positions,
                   c.shared.node_positions).theirs
    /\ port_refs' = r.s.port_refs
    /\ cloned' = Some([s |-> r.s,
                       shared |-> [f \in RcFields |->
                                     rc_after(f, c.s, r.s, S[f], c.shared[f]).shared],
                       own |-> [c.own EXCEPT !.copy = [f \in RcFields |-> r.s[f]]]])
    /\ panicked' = r.panic
    /\ UNCHANGED <<node_finder, pan_zoom, drag_state, event_listener>>

CloneCreateNode(t) ==
    /\ ~panicked /\ cloned # None
    /\ Allocated(cloned.val.s.graph.nodes) < MaxCreated
    /\ OnClone(create_node(cloned.val.s, t))

CloneDeleteNode(n) ==
    /\ ~panicked /\ cloned # None
    /\ n \in sm_keys(cloned.val.s.graph.nodes)
    /\ OnClone(delete_node(cloned.val.s, n))

CloneSelection(n, shift_key) ==
    /\ ~panicked /\ cloned # None
    /\ n \in sm_keys(cloned.val.s.graph.nodes)
    /\ OnClone(Ok(selection(cloned.val.s, n, shift_key), Unit))

\* the embedder calls Graph::add_node on the public field graph
AddNode(t) ==
    /\ ~panicked
    /\ Created < MaxCreated
    /\ Commit(Ok([S EXCEPT !.graph = add_node(@, t).graph], add_node(graph, t).id))

\* Graph::add_input_param
AddInputParam(n, name, typ) ==
    /\ ~panicked
    /\ Allocated(graph.inputs) < MaxParams
    /\ LET r == add_input_param(graph, n, name, typ) IN
       Commit(Ok([S EXCEPT !.graph = r.graph], r.id))

\* Graph::add_output_param
AddOutputParam(n, name, typ) ==
    /\ ~panicked
    /\ Allocated(graph.outputs) + 1 < MaxParams
    /\ LET r == add_output_param(graph, n, name, typ) IN
       Commit(Ok([S EXCEPT !.graph = r.graph], r.id))

\* Graph::remove_node
RemoveNode(n) ==
    /\ ~panicked
    /\ LET r == remove_node(graph, n) IN
       Commit([s |-> [S EXCEPT !.graph = r.graph], ret |-> None, panic |-> r.panic])

\* Graph::remove_input_param
RemoveInputParam(i) ==
    /\ ~panicked
    /\ LET r == remove_input_param(graph, i) IN
       Commit([s |-> [S EXCEPT !.graph = r.graph], ret |-> None, panic |-> r.panic])

\* Graph::remove_output_param
RemoveOutputParam(o) ==
    /\ ~panicked
    /\ LET r == remove_output_param(graph, o) IN
       Commit([s |-> [S EXCEPT !.graph = r.graph], ret |-> None, panic |-> r.panic])

\* a call of PanZoom::zoom_to_pos on the editor's pan_zoom
ZoomToPos(zoom, logical_pos) ==
    /\ ~panicked
    /\ LET pz == zoom_to_pos(pan_zoom, zoom, logical_pos) IN
       /\ InView(pz) /\ ZoomBounded(pz)
       /\ Commit(Ok([S EXCEPT !.pan_zoom = pz], Unit))

\* a call of PanZoom::pan_screen on the editor's pan_zoom
PanScreen(delta) ==
    /\ ~panicked
    /\ LET pz == pan_screen(pan_zoom, delta) IN
       /\ InView(pz)
       /\ Commit(Ok([S EXCEPT !.pan_zoom = pz], Unit))

\* a call of PanZoom::pan_logical on the editor's pan_zoom
PanLogical(delta) ==
    /\ ~panicked
    /\ LET pz == pan_logical(pan_zoom, delta) IN
       /\ InView(pz)
       /\ Commit(Ok([S EXCEPT !.pan_zoom = pz], Unit))

\* Connection gestures over a graph that nodes enter and leave, with the
\* selection; the pan/zoom is the default one.
Next ==
    \/ \E t \in Templates : CreateNode(t)
    \/ \E n \in LiveNodes : DeleteNode(n)
    \/ \E n \in LiveNodes, k \in BOOLEAN : Selection(n, k)
    \/ \E id \in LivePorts, c \in Centers, o \in Offsets : StartConnection(id, c, o)
    \/ \E p \in Points : MoveConnection(p)
    \/ \E id \in LivePorts : SnapConnection(id)
    \/ \E p \in Points : UnsnapConnection(p)
    \/ EndConnection
    \/ \E o \in LiveOutputs, i \in LiveInputs : AddConnection(o, i)
    \/ \E i \in LiveInputs : RemoveConnection(i)

Spec == Init /\ [][Next]_vars

\* Selection, node creation and deletion, the node finder and the box-select
\* gesture, under each pan/zoom of PanZooms.
NextSelect ==
    \/ \E t \in Templates : CreateNode(t)
    \/ \E n \in LiveNodes : DeleteNode(n)
    \/ \E n \in LiveNodes, k \in BOOLEAN : Selection(n, k)
    \/ \E p \in FinderPoints : OpenNodeFinder(p)
    \/ \E p \in Points : StartSelectBox(p)
    \/ \E p \in Points : ScaleSelectBox(p)
    \/ EndSelectBox

SpecSelect == InitPanZoom /\ [][NextSelect]_vars

\* Every gesture's start and every gesture's end, in any order, over a graph
\* that nodes enter and leave; every node sits at the origin.
NextDrag ==
    \/ \E t \in Templates : CreateNode(t)
    \/ \E n \in LiveNodes : DeleteNode(n)
    \/ \E n \in LiveNodes, k \in BOOLEAN : Selection(n, k)
    \/ \E id \in LivePorts, c \in Centers, o \in Offsets : StartConnection(id, c, o)
    \/ \E id \in LivePorts : SnapConnection(id)
    \/ EndConnection
    \/ \E n \in LiveNodes, sh \in Shifts : StartMovingNode(n, sh)
    \/ EndMovingNode
    \/ \E p \in Points : StartSelectBox(p)
    \/ \E p \in Points : ScaleSelectBox(p)
    \/ EndSelectBox
    \/ \E p \in Points : PanStart(p)

SpecDrag == Init /\ [][NextDrag]_vars

\* The view transforms the move gesture starts under: the default one and a
\* panned, magnified one.
MovePanZooms == {PanZoomDefault, [pan |-> vec2(2, 2), zoom |-> R(2)]}

InitMove ==
    /\ graph = EditorDefault.graph
    /\ selected_nodes = EditorDefault.selected_nodes
    /\ node_positions = EditorDefault.node_positions
    /\ port_refs = EditorDefault.port_refs
    /\ node_finder = EditorDefault.node_finder
    /\ pan_zoom \in MovePanZooms
    /\ drag_state = EditorDefault.drag_state
    /\ event_listener = None
    /\ panicked = FALSE
    /\ cloned = None

\* The move gesture over nodes that are created, selected, unselected and
\* deleted while it runs.
NextMove ==
    \/ CreateNode("Txt")
    \/ \E n \in LiveNodes : DeleteNode(n)
    \/ \E n \in LiveNodes, k \in BOOLEAN : Selection(n, k)
    \/ \E n \in LiveNodes : StartMovingNode(n, vec2(2, 1))
    \/ \E p \in Points : MoveNode(p)
    \/ EndMovingNode

SpecMove == InitMove /\ [][NextMove]_vars

\* The view gestures of the component from the default view: the pan with the
\* middle button and the wheel, over nodes created through the finder while
\* the view is the default one.
NextView ==
    \/ pan_zoom = PanZoomDefault /\ FinderSelect("Txt")
    \/ \E p \in Points : PanStart(p)
    \/ \E p \in Points : DragMouseMove(p)
    \/ DragMouseUp
    \/ \E sn \in BOOLEAN, p \in Points : Wheel(sn, p)

SpecView == Init /\ [][NextView]_vars

\* The component: nodes created through the finder, and the four gestures, each started by its mouse-down, fed mouse moves and ended by the
\* document mouse-up; a mouse-down may come while another gesture's listeners
\* are installed (a second button).
NextComp ==
    \/ FinderSelect("Add")
    \/ \E n \in LiveNodes, k \in BOOLEAN : NodeMouseDown(n, vec2(2, 1), k)
    \/ \E id \in LivePorts : PortMouseDown(id, Some(vec2(6, 4)), Some(vec2(2, 2)))
    \/ \E b \in Buttons, k \in BOOLEAN : BackgroundMouseDown(b, vec2(0, 0), k)
    \/ DragMouseMove(vec2(4, 2))
    \/ DragMouseUp

SpecComp == Init /\ [][NextComp]_vars

\* The PanZoom of the editor under the methods that change it, from each of
\* PanZooms: the zooms are powers of two and the pans binary fractions, on
\* which f32 arithmetic is exact.
NextPanZoom ==
    \/ \E f \in ZoomFactors, a \in Points : ZoomToPos(f, a)
    \/ \E d \in Deltas : PanScreen(d)
    \/ \E d \in Deltas : PanLogical(d)

SpecPanZoom == InitPanZoom /\ [][NextPanZoom]_vars

\* The connection gesture as the component drives it: ports are grabbed,
\* entered, left and released, while nodes are created from the finder and
\* deleted with their delete button.
NextSnap ==
    \/ \E t \in Templates : FinderSelect(t)
    \/ \E n \in LiveNodes : NodeDelete(n)
    \/ \E id \in LivePorts : PortMouseDown(id, Some(vec2(6, 4)), Some(vec2(2, 2)))
    \/ \E id \in LivePorts : PortMouseEnter(id)
    \/ \E id \in LivePorts : PortMouseLeave(id, Some(vec2(6, 4)), Some(vec2(2, 2)))
    \/ \E p \in Points : DragMouseMove(p)
    \/ DragMouseUp

SpecSnap == Init /\ [][NextSnap]_vars

\* The methods of Graph that add and remove nodes, remove ports and change
\* edges, called with live ids, and the connection gesture of the editor over
\* the same graph; the ports are those the closure of add_node adds.
NextGraph ==
    \/ AddNode("Add")
    \/ \E n \in LiveNodes : RemoveNode(n)
    \/ \E i \in LiveInputs : RemoveInputParam(i)
    \/ \E o \in LiveOutputs : RemoveOutputParam(o)
    \/ \E o \in LiveOutputs, i \in LiveInputs : AddConnection(o, i)
    \/ \E i \in LiveInputs : RemoveConnection(i)
    \/ \E id \in LivePorts : StartConnection(id, Some(vec2(6, 4)), Some(vec2(2, 2)))
    \/ \E id \in LivePorts : SnapConnection(id)
    \/ EndConnection

SpecGraph == Init /\ [][NextGraph]_vars

\* the names and data types the embedder gives to the ports it adds
ParamNames == {"a", "b"}
ParamTypes == {"Number"}

\* the default editor after the embedder has added a node to the public field
\* graph
InitParams ==
    /\ graph = add_node(GraphNew, "Add").graph
    /\ selected_nodes = EditorDefault.selected_nodes
    /\ node_positions = EditorDefault.node_positions
    /\ port_refs = EditorDefault.port_refs
    /\ node_finder = EditorDefault.node_finder
    /\ pan_zoom = EditorDefault.pan_zoom
    /\ drag_state = EditorDefault.drag_state
    /\ event_listener = None
    /\ panicked = FALSE
    /\ cloned = None

\* The methods of Graph that add and remove ports and edges, called with live
\* ids on a graph of one node.
NextParams ==
    \/ \E n \in LiveNodes, name \in ParamNames, typ \in ParamTypes :
          AddInputParam(n, name, typ)
    \/ \E n \in LiveNodes, name \in ParamNames, typ \in ParamTypes :
          AddOutputParam(n, name, typ)
    \/ \E i \in LiveInputs : RemoveInputParam(i)
    \/ \E o \in LiveOutputs : RemoveOutputParam(o)
    \/ \E o \in LiveOutputs, i \in LiveInputs : AddConnection(o, i)
    \/ \E i \in LiveInputs : RemoveConnection(i)

SpecParams == InitParams /\ [][NextParams]_vars

\* the editor after the embedder has created three Add nodes
InitNotify ==
    /\ graph = create_node(create_node(create_node(EditorDefault, "Add").s, "Add").s,
                           "Add").s.graph
    /\ selected_nodes = create_node(create_node(create_node(EditorDefault, "Add").s,
                                    "Add").s, "Add").s.selected_nodes
    /\ node_positions = create_node(create_node(create_node(EditorDefault, "Add").s,
                                    "Add").s, "Add").s.node_positions
    /\ port_refs = create_node(create_node(create_node(EditorDefault, "Add").s,
                               "Add").s, "Add").s.port_refs
    /\ node_finder = EditorDefault.node_finder
    /\ pan_zoom = EditorDefault.pan_zoom
    /\ drag_state = EditorDefault.drag_state
    /\ event_listener = None
    /\ panicked = FALSE
    /\ cloned = None

\* The events of the component that change Connections (delete button, port
\* mouse-down, enter, leave, mouse-up), over three nodes whose outputs and
\* inputs all have one type.
NextNotify ==
    \/ \E n \in LiveNodes : NodeDelete(n)
    \/ \E id \in LivePorts : PortMouseDown(id, Some(vec2(6, 4)), Some(vec2(2, 2)))
    \/ \E id \in LivePorts : PortMouseEnter(id)
    \/ \E id \in LivePorts : PortMouseLeave(id, Some(vec2(6, 4)), Some(vec2(2, 2)))
    \/ DragMouseUp

SpecNotify == InitNotify /\ [][NextNotify]_vars

\* The steps of the three gestures that have one (move_node,
\* move_connection, scale_select_box), each called in whatever drag state the
\* editor is in: idle, its own gesture or another one.
NextGuard ==
    \/ CreateNode("Add")
    \/ \E n \in LiveNodes, k \in BOOLEAN : Selection(n, k)
    \/ \E id \in LivePorts : StartConnection(id, Some(vec2(6, 4)), Some(vec2(2, 2)))
    \/ \E n \in LiveNodes : StartMovingNode(n, vec2(2, 1))
    \/ StartSelectBox(vec2(0, 0))
    \/ PanStart(vec2(0, 0))
    \/ \E p \in Points : MoveNode(p)
    \/ \E p \in Points : MoveConnection(p)
    \/ \E p \in Points : ScaleSelectBox(p)
    \/ EndMovingNode
    \/ EndConnection
    \/ EndSelectBox

SpecGuard == Init /\ [][NextGuard]_vars

\* the nodes of the clone's graph
CloneNodes == IF cloned = None THEN {} ELSE sm_keys(cloned.val.s.graph.nodes)

\* The editor state and a clone of it, each under node creation and
\* deletion and selection, in any interleaving.
NextClone ==
    \/ Clone
    \/ CreateNode("Add")
    \/ \E n \in LiveNodes : DeleteNode(n)
    \/ \E n \in LiveNodes, k \in BOOLEAN : Selection(n, k)
    \/ CloneCreateNode("Add")
    \/ \E n \in CloneNodes : CloneDeleteNode(n)
    \/ \E n \in CloneNodes, k \in BOOLEAN : CloneSelection(n, k)

SpecClone == Init /\ [][NextClone]_vars

\* The component with its node finder: the context menu opens it, a template
\* chosen in it creates a node, and the gestures of the component are started
\* and ended beside.
NextFinder ==
    \/ \E p \in FinderPoints : BackgroundContextMenu(p)
    \/ FinderSelect("Add")
    \/ \E n \in LiveNodes, k \in BOOLEAN : NodeMouseDown(n, vec2(2, 1), k)
    \/ \E n \in LiveNodes : NodeDelete(n)
    \/ \E id \in LivePorts : PortMouseDown(id, Some(vec2(6, 4)), Some(vec2(2, 2)))
    \/ \E b \in Buttons, k \in BOOLEAN : BackgroundMouseDown(b, vec2(0, 0), k)
    \/ DragMouseUp

SpecFinder == Init /\ [][NextFinder]_vars

----------------------------------------------------------------------------
(* What the properties are stated with                                     *)

\* the edges of a graph: <<input, output>> for every entry of connections
Edges(g) == {<<k, sec_value(g.connections, k)>> : k \in sec_keys(g.connections)}

\* the ports of node n, by the node field their arena entries carry
InputsOf(g, n) == {i \in sm_keys(g.inputs) : sm_value(g.inputs, i).node = n}
OutputsOf(g, n) == {o \in sm_keys(g.outputs) : sm_value(g.outputs, o).node = n}

\* the edges of g that touch a port of node n
Incident(g, n) ==
    {e \in Edges(g) : e[1] \in InputsOf(g, n) \/ e[2] \in OutputsOf(g, n)}

\* every edge joins two ports of the graph
EdgesLive(g) ==
    \A e \in Edges(g) : sm_contains(g.inputs, e[1]) /\ sm_contains(g.outputs, e[2])

\* the gesture in progress, read off the payload of drag_state
Dragging(tag) == drag_state.tag = "Some" /\ drag_state.val.tag = tag
Snapped == Dragging("ConnectPort") /\ drag_state.val.c.dest.tag = "Id"
SnapOutput ==
    IF drag_state.val.c.tag = "FromOutput"
    THEN drag_state.val.c.src ELSE drag_state.val.c.dest.id
SnapInput ==
    IF drag_state.val.c.tag = "FromOutput"
    THEN drag_state.val.c.dest.id ELSE drag_state.val.c.src

\* the gesture is snapped to two ports of the graph
SnappedLive == Snapped /\ SnapOutput \in LiveOutputs /\ SnapInput \in LiveInputs

\* ... whose data types are equal
SnappedTyped ==
    /\ SnappedLive
    /\ sm_value(graph.outputs, SnapOutput).typ = sm_value(graph.inputs, SnapInput).typ

\* the state S with the drag state cleared and nothing else changed
Cleared == [S EXCEPT !.drag_state = None]

----------------------------------------------------------------------------
(* C1 .. C10                                                               *)

\* C1 (edge uniqueness).  In every reachable state an input has at most one
\* edge.  Committing an edge onto an input, by add_connection or by
\* end_connection of a gesture snapped to two ports of equal type, leaves that
\* input with the new output alone: the input's previous edge is replaced, no
\* second one is added, and the edges of the other inputs stay, those from the
\* same output included.
C1_EdgeUniqueness ==
    ~panicked =>
    /\ \A e1, e2 \in Edges(graph) : e1[1] = e2[1] => e1[2] = e2[2]
    /\ \A o \in LiveOutputs, i \in LiveInputs :
          Edges(add_connection(graph, o, i)) =
              {e \in Edges(graph) : e[1] # i} \cup {<<i, o>>}
    /\ SnappedTyped =>
          Edges(end_connection(S).s.graph) =
              {e \in Edges(graph) : e[1] # SnapInput} \cup {<<SnapInput, SnapOutput>>}

\* C1's case: one output drives two inputs, and a gesture from another output
\* is snapped onto one of them; releasing it replaces that input's edge.
C1_Witness ==
    /\ ~panicked
    /\ SnappedTyped
    /\ \E e1, e2 \in Edges(graph) :
          /\ e1[1] = SnapInput /\ e1[2] # SnapOutput
          /\ e2[2] = e1[2] /\ e2[1] # e1[1]
          /\ Edges(end_connection(S).s.graph) = {<<SnapInput, SnapOutput>>, e2}

\* C2 (cascade completeness).  On a graph whose edges all join live ports,
\* remove_node(n) of a live node n removes n, every input and output port
\* that belonged to n, and every edge with a port of n at either end: no edge
\* left in Connections references a port of n.
C2_CascadeCompleteness ==
    (~panicked /\ EdgesLive(graph)) =>
    \A n \in LiveNodes :
        LET r == remove_node(graph, n) IN
        /\ ~r.panic
        /\ ~sm_contains(r.graph.nodes, n)
        /\ \A i \in InputsOf(graph, n) : ~sm_contains(r.graph.inputs, i)
        /\ \A o \in OutputsOf(graph, n) : ~sm_contains(r.graph.outputs, o)
        /\ \A e \in Edges(r.graph) :
              e[1] \notin InputsOf(graph, n) /\ e[2] \notin OutputsOf(graph, n)
        /\ EdgesLive(r.graph)

\* C2's case: a node with an edge into its input from another node and an
\* edge from its output to another node; removing it removes both.
C2_Witness ==
    /\ ~panicked
    /\ EdgesLive(graph)
    /\ \E n \in LiveNodes :
          /\ \E e \in Edges(graph) :
                e[1] \in InputsOf(graph, n) /\ e[2] \notin OutputsOf(graph, n)
          /\ \E e \in Edges(graph) :
                e[2] \in OutputsOf(graph, n) /\ e[1] \notin InputsOf(graph, n)
          /\ Edges(remove_node(graph, n).graph) = {}
          /\ ~sm_contains(remove_node(graph, n).graph.nodes, n)

\* C3 (type gating), as the claim states it.  end_connection returns; it
\* returns Some(<<output, input>>) and inserts the edge when the drag state is
\* a ConnectPort snapped to a port and the two ports' types are equal; in
\* every other case it returns None and Connections is unchanged.
C3_TypeGating ==
    ~panicked =>
    LET r == end_connection(S) IN
    /\ ~r.panic
    /\ IF SnappedTyped
       THEN /\ r.ret = Some(<<SnapOutput, SnapInput>>)
            /\ <<SnapInput, SnapOutput>> \in Edges(r.s.graph)
       ELSE /\ r.ret = None
            /\ r.s.graph.connections = graph.connections

\* What holds of end_connection in every state (C3 without the call that
\* does not return): a call that returns does as C3 says, and the call made
\* while the gesture is snapped to a removed port panics in param_typ_eq,
\* Connections unchanged.
TypeGatingOfReturningCalls ==
    ~panicked =>
    LET r == end_connection(S) IN
    /\ r.panic <=> (Snapped /\ ~SnappedLive)
    /\ r.panic => r.s.graph.connections = graph.connections
    /\ ~r.panic =>
          IF SnappedTyped
          THEN /\ r.ret = Some(<<SnapOutput, SnapInput>>)
               /\ Edges(r.s.graph) =
                    {e \in Edges(graph) : e[1] # SnapInput} \cup {<<SnapInput, SnapOutput>>}
          ELSE /\ r.ret = None
               /\ r.s.graph.connections = graph.connections

\* C4 (reconnect).  start_connection on an input that has an edge from output
\* o removes that edge, returns Some(<<o, i>>) and leaves the drag state a
\* ConnectPort from o with a free (Pos) end.  On any other port it returns
\* None, leaves Connections unchanged and starts the gesture from the given
\* port, with a free end.
C4_Reconnect ==
    ~panicked =>
    \A id \in LivePorts, c \in Centers, o \in Offsets :
        LET r == start_connection(S, id, c, o)
            d == r.s.drag_state
        IN  /\ ~r.panic
            /\ d.tag = "Some" /\ d.val.tag = "ConnectPort"
            /\ d.val.c.dest.tag = "Pos"
            /\ IF id.tag = "Input" /\ \E e \in Edges(graph) : e[1] = id.id
               THEN LET out == (CHOOSE e \in Edges(graph) : e[1] = id.id)[2] IN
                    /\ r.ret = Some(<<out, id.id>>)
                    /\ Edges(r.s.graph) = Edges(graph) \ {<<id.id, out>>}
                    /\ d.val.c.tag = "FromOutput" /\ d.val.c.src = out
               ELSE /\ r.ret = None
                    /\ r.s.graph.connections = graph.connections
                    /\ d.val.c.tag =
                         (IF id.tag = "Input" THEN "FromInput" ELSE "FromOutput")
                    /\ d.val.c.src = id.id

\* C4's case: two inputs driven by the same output; grabbing one of them
\* detaches its edge, hands the output to the gesture and keeps the other edge.
C4_Witness ==
    /\ ~panicked
    /\ \E e1, e2 \in Edges(graph) :
          /\ e1[1] # e2[1] /\ e1[2] = e2[2]
          /\ LET r == start_connection(S, Input(e1[1]), None, None) IN
             /\ r.ret = Some(<<e1[2], e1[1]>>)
             /\ Edges(r.s.graph) = {e2}
             /\ r.s.drag_state = Some(ConnectPort(FromOutput(e1[2], ToPos(ZERO))))

\* C5 (the ends clear the drag state).  end_moving_node, end_connection and
\* end_select_box each leave drag_state None, whatever it held.  When it
\* held no gesture or another gesture's variant the call changes nothing
\* else: no edge is committed, no node is selected, and end_connection
\* returns None.
C5_EndClearsDragState ==
    ~panicked =>
    /\ end_moving_node(S).drag_state = None
    /\ end_connection(S).s.drag_state = None
    /\ end_select_box(S).drag_state = None
    /\ ~Dragging("MoveNode") => end_moving_node(S) = Cleared
    /\ ~Dragging("ConnectPort") => end_connection(S) = Ok(Cleared, None)
    /\ ~Dragging("SelectBox") => end_select_box(S) = Cleared

\* C5's case: a connection gesture is snapped to a free input of equal type,
\* so that end_connection would commit, and a live node is unselected; the
\* ends of the two other gestures clear the gesture and commit and select
\* nothing.
C5_Witness ==
    /\ ~panicked
    /\ SnappedTyped
    /\ <<SnapInput, SnapOutput>> \notin Edges(graph)
    /\ <<SnapInput, SnapOutput>> \in Edges(end_connection(S).s.graph)
    /\ LiveNodes \ selected_nodes # {}
    /\ end_select_box(S) = Cleared
    /\ end_moving_node(S) = Cleared
    /\ S # Cleared

C7_SelectedPlainClickIsNoOp ==
    ~panicked =>
    \A id \in LiveNodes :
        id \in selected_nodes =>
            selection(S, id, FALSE).selected_nodes = selected_nodes

\* C8, as the claim states it: create_node replaces the selection, the
\* selection after it is the new node alone.
C8_CreateReplacesSelection ==
    ~panicked =>
    \A t \in Templates :
        create_node(S, t).s.selected_nodes = {create_node(S, t).ret}

\* C8, amended: create_node adds the new node to the selection and keeps
\* every node that was selected; the selection after it is the selection
\* before it plus the new node, which was not in it.
C8_CreateAddsToSelection ==
    ~panicked =>
    \A t \in Templates :
        LET r == create_node(S, t) IN
        /\ r.ret \notin selected_nodes
        /\ r.s.selected_nodes = selected_nodes \cup {r.ret}

\* C8's case: a node is selected when another is created; both are selected
\* afterwards.
C8_Witness ==
    /\ ~panicked
    /\ selected_nodes \cap LiveNodes # {}
    /\ \E t \in Templates :
          LET r == create_node(S, t) IN
          /\ selected_nodes \subseteq r.s.selected_nodes
          /\ r.ret \in r.s.selected_nodes
          /\ Cardinality(r.s.selected_nodes) = Cardinality(selected_nodes) + 1

\* C9 (creation).  create_node returns the id n of a node that is in the
\* graph afterwards and was not before; node_positions[n] is the logical
\* point the pan/zoom shows at the finder's screen anchor
\* (zoom * position + pan = node_finder.pos); and the registry holds an entry
\* for each port the template built on n, inputs and outputs.
C9_CreateNode ==
    ~panicked =>
    \A t \in Templates :
        LET r == create_node(S, t)
            n == r.ret
            g == r.s.graph
        IN  /\ ~r.panic
            /\ n \notin LiveNodes
            /\ sm_contains(g.nodes, n)
            /\ sec_contains(r.s.node_positions, n)
            /\ VAdd(VScale(pan_zoom.zoom, sec_value(r.s.node_positions, n)),
                    pan_zoom.pan) = node_finder.pos
            /\ Cardinality(InputsOf(g, n)) = Len(TemplateInputs(t))
            /\ Cardinality(OutputsOf(g, n)) = Len(TemplateOutputs(t))
            /\ Range(input_ids(sm_value(g.nodes, n))) = InputsOf(g, n)
            /\ Range(output_ids(sm_value(g.nodes, n))) = OutputsOf(g, n)
            /\ \A i \in InputsOf(g, n) : sec_contains(r.s.port_refs.input, i)
            /\ \A o \in OutputsOf(g, n) : sec_contains(r.s.port_refs.output, o)

\* C9's case: the view is panned and zoomed and the finder sits off the
\* origin, so the node's logical position is not the anchor; the node takes
\* the slots a deleted node left, and it has an input and an output port.
C9_Witness ==
    /\ ~panicked
    /\ pan_zoom.zoom # R(1) /\ pan_zoom.pan # ZERO
    /\ node_finder.pos # ZERO
    /\ LET r == create_node(S, "Add") IN
       /\ r.ret[2] > 1
       /\ sec_value(r.s.node_positions, r.ret) # node_finder.pos
       /\ logical2screen(pan_zoom, sec_value(r.s.node_positions, r.ret)) = node_finder.pos
       /\ \E i \in InputsOf(r.s.graph, r.ret) : sec_contains(r.s.port_refs.input, i)
       /\ \E o \in OutputsOf(r.s.graph, r.ret) : sec_contains(r.s.port_refs.output, o)

\* C10 (deletion).  delete_node(n) takes n out of the graph, out of the
\* selection and its ports out of the registry, and returns the node with the
\* edges that were severed, each once; the other nodes' selection and the
\* other ports' registry entries are as before.
C10_DeleteNode ==
    ~panicked =>
    \A n \in LiveNodes :
        LET r == delete_node(S, n)
            ins == InputsOf(graph, n)
            outs == OutputsOf(graph, n)
        IN  /\ ~r.panic
            /\ ~sm_contains(r.s.graph.nodes, n)
            /\ r.s.selected_nodes = selected_nodes \ {n}
            /\ sec_keys(r.s.port_refs.input) = sec_keys(port_refs.input) \ ins
            /\ sec_keys(r.s.port_refs.output) = sec_keys(port_refs.output) \ outs
            /\ \A k \in sec_keys(r.s.port_refs.input) :
                  sec_value(r.s.port_refs.input, k) = sec_value(port_refs.input, k)
            /\ \A k \in sec_keys(r.s.port_refs.output) :
                  sec_value(r.s.port_refs.output, k) = sec_value(port_refs.output, k)
            /\ r.ret.node = sm_value(graph.nodes, n)
            /\ Range(r.ret.disconnected) = Incident(graph, n)
            /\ Len(r.ret.disconnected) = Cardinality(Incident(graph, n))
            /\ Edges(r.s.graph) = Edges(graph) \ Incident(graph, n)

\* C10's case: two selected nodes with registered ports and an edge between
\* them; deleting one returns the edge, and the other stays selected and
\* registered.
C10_Witness ==
    /\ ~panicked
    /\ \E n, m \in LiveNodes :
          /\ n # m /\ {n, m} \subseteq selected_nodes
          /\ \E e \in Edges(graph) :
                e[1] \in InputsOf(graph, n) /\ e[2] \in OutputsOf(graph, m)
          /\ LET r == delete_node(S, n) IN
             /\ r.s.selected_nodes = {m}
             /\ Len(r.ret.disconnected) >= 1
             /\ \A o \in OutputsOf(graph, m) : sec_contains(r.s.port_refs.output, o)
             /\ \A o \in OutputsOf(graph, n) : ~sec_contains(r.s.port_refs.output, o)

----------------------------------------------------------------------------
(* C11 .. C20                                                              *)

\* C11 (start of a move).  start_moving_node(id, shift) on a selected node
\* sets the drag state to MoveNode{id, shift} and changes nothing else; on a
\* node that is not selected it changes nothing: the drag state (a gesture in
\* progress included), the selection, the positions and the graph stay.
C11_StartMovingNode ==
    ~panicked =>
    \A id \in LiveNodes, sh \in Shifts :
        start_moving_node(S, id, sh) =
            (IF id \in selected_nodes
             THEN [S EXCEPT !.drag_state = Some(MoveNodeState(id, sh))]
             ELSE S)

\* C11's case: another gesture is in progress and of two live nodes one is
\* selected and one is not; the call on the unselected one changes nothing,
\* the call on the selected one replaces the gesture.
C11_Witness ==
    /\ ~panicked
    /\ Dragging("SelectBox")
    /\ \E a, b \in LiveNodes :
          /\ a \in selected_nodes /\ b \notin selected_nodes
          /\ start_moving_node(S, b, vec2(2, 1)) = S
          /\ start_moving_node(S, a, vec2(2, 1)).drag_state =
                Some(MoveNodeState(a, vec2(2, 1)))

\* The move gesture in progress (its id and grab offset), the logical point
\* move_node(pointer) aims the grabbed node at, and a node's stored position.
Move == drag_state.val

MoveTarget(pointer) == screen2logical(pan_zoom, VSub(pointer, Move.shift))

position(s, n) == sec_value(s.node_positions, n)

\* C12 (rigid multi-move). While drag_state is MoveNode{id, shift}, one
\* move_node(pointer) call returns Some(delta) with
\* delta = screen2logical(pointer - shift) - position(id), has added delta to
\* the position of every selected node and left every other position (and
\* everything else) as it was, and afterwards position(id) is
\* screen2logical(pointer - shift).
C12_RigidMultiMove ==
    (~panicked /\ Dragging("MoveNode")) =>
    \A pointer \in Points :
        LET r == move_node(S, pointer) IN
        /\ ~r.panic
        /\ sec_contains(node_positions, Move.id)
        /\ LET delta == VSub(MoveTarget(pointer), position(S, Move.id)) IN
           /\ r.ret = Some(delta)
           /\ \A n \in selected_nodes :
                 sec_get(r.s.node_positions, n) = Some(VAdd(position(S, n), delta))
           /\ \A k \in sec_keys(node_positions) \ selected_nodes :
                 sec_get(r.s.node_positions, k) = sec_get(node_positions, k)
           /\ sec_keys(r.s.node_positions) = sec_keys(node_positions)
           /\ r.s = [S EXCEPT !.node_positions = r.s.node_positions]
           /\ sec_get(r.s.node_positions, Move.id) = Some(MoveTarget(pointer))

\* What holds of move_node in every state with a move gesture in progress
\* (C12 without the calls that do not return and without the grabbed node
\* having left the selection): the call panics exactly when the grabbed id or
\* a selected id has no stored position; a call that returns has moved the
\* selection rigidly by the delta it returns, and the grabbed node lands on
\* the target when it is still selected and otherwise stays where it was.
RigidMoveOfReturningCalls ==
    (~panicked /\ Dragging("MoveNode")) =>
    \A pointer \in Points :
        LET r == move_node(S, pointer) IN
        /\ r.panic <=>
              \/ ~sec_contains(node_positions, Move.id)
              \/ \E n \in selected_nodes : ~sec_contains(node_positions, n)
        /\ ~r.panic =>
              LET delta == VSub(MoveTarget(pointer), position(S, Move.id)) IN
              /\ r.ret = Some(delta)
              /\ \A n \in selected_nodes :
                    sec_get(r.s.node_positions, n) = Some(VAdd(position(S, n), delta))
              /\ \A k \in sec_keys(node_positions) \ selected_nodes :
                    sec_get(r.s.node_positions, k) = sec_get(node_positions, k)
              /\ r.s = [S EXCEPT !.node_positions = r.s.node_positions]
              /\ sec_get(r.s.node_positions, Move.id) =
                    Some(IF Move.id \in selected_nodes
                         THEN MoveTarget(pointer)
                         ELSE position(S, Move.id))

\* The two ways C12 fails are both reachable: the grabbed node was deleted and
\* its slot reused, so its position entry is gone; and the grabbed node was
\* unselected while another node stayed selected.
MoveOfDeletedNode ==
    /\ ~panicked /\ Dragging("MoveNode")
    /\ Move.id \notin LiveNodes
    /\ ~sec_contains(node_positions, Move.id)

MoveOfUnselectedNode ==
    /\ ~panicked /\ Dragging("MoveNode")
    /\ Move.id \in LiveNodes /\ Move.id \notin selected_nodes
    /\ selected_nodes # {}
    /\ \E pointer \in Points :
          LET r == move_node(S, pointer) IN
          /\ ~r.panic /\ r.ret # Some(vec2(0, 0))
          /\ position(r.s, Move.id) = position(S, Move.id)

\* C13 (box selection is additive). end_select_box never removes a node from
\* the selection: whatever the drag state, every node selected before the call
\* is selected after it.
C13_EndSelectBoxIsAdditive ==
    ~panicked => selected_nodes \subseteq end_select_box(S).selected_nodes

\* a box is being dragged over an unselected node while a selected node lies
\* outside it; ending the box selects the one and keeps the other
C13_Witness ==
    /\ ~panicked
    /\ Dragging("SelectBox")
    /\ \E a, b \in LiveNodes :
          /\ a \in selected_nodes /\ b \notin selected_nodes
          /\ end_select_box(S).selected_nodes = selected_nodes \cup {b}

\* The screen rectangle of the select box in progress, and whether a node
\* position drawn under the view transform pz falls strictly inside it / inside
\* it with its lower sides included.
BoxMin == VMin(drag_state.val.start, drag_state.val.end)

BoxMax == VMax(drag_state.val.start, drag_state.val.end)

StrictlyInBox(pz, p) ==
    LET q == logical2screen(pz, p) IN
    /\ RLt(BoxMin[1], q[1]) /\ RLt(q[1], BoxMax[1])
    /\ RLt(BoxMin[2], q[2]) /\ RLt(q[2], BoxMax[2])

InHalfOpenBox(pz, p) ==
    LET q == logical2screen(pz, p) IN
    /\ ~RLt(q[1], BoxMin[1]) /\ RLt(q[1], BoxMax[1])
    /\ ~RLt(q[2], BoxMin[2]) /\ RLt(q[2], BoxMax[2])

\* C14 as stated (box membership in logical space, half-open). Under every
\* view transform, end_select_box adds exactly the nodes whose position p
\* satisfies min <= p < max on both axes, min and max being the box corners
\* mapped to logical space: a node on the lower or left side is taken.
C14_HalfOpenBox ==
    (~panicked /\ Dragging("SelectBox")) =>
    \A pz \in PanZooms :
        end_select_box([S EXCEPT !.pan_zoom = pz]).selected_nodes =
            selected_nodes \cup
            {k \in sec_keys(node_positions) : InHalfOpenBox(pz, position(S, k))}

\* C14 as the code has it (box membership in logical space, open). Under
\* every view transform, end_select_box adds exactly the entries of
\* node_positions whose position p satisfies min < p < max on both axes: a
\* node on any side of the box is not taken.
C14_OpenBox ==
    (~panicked /\ Dragging("SelectBox")) =>
    \A pz \in PanZooms :
        end_select_box([S EXCEPT !.pan_zoom = pz]).selected_nodes =
            selected_nodes \cup
            {k \in sec_keys(node_positions) : StrictlyInBox(pz, position(S, k))}

\* at zoom 1 and pan 0 the box (0,0)-(4,2) is dragged with nothing selected,
\* over a node at (2,1) and a node on its corner (0,0): the first is taken, the
\* second is not, and under the pan (2,2) at zoom 2 the first is not taken
\* either
C14_Witness ==
    /\ ~panicked
    /\ Dragging("SelectBox")
    /\ pan_zoom = PanZoomDefault
    /\ BoxMin = vec2(0, 0) /\ BoxMax = vec2(4, 2)
    /\ selected_nodes = {}
    /\ \E a, b \in LiveNodes :
          /\ position(S, a) = vec2(2, 1) /\ position(S, b) = vec2(0, 0)
          /\ end_select_box(S).selected_nodes = {a}
          /\ LET moved == [pan |-> vec2(2, 2), zoom |-> R(2)] IN
             /\ moved \in PanZooms
             /\ a \notin end_select_box([S EXCEPT !.pan_zoom = moved]).selected_nodes

\* how many pointer moves of one pan gesture are followed
MaxMoves == 3

\* the pointer moves of a gesture: the sequences of 1 .. MaxMoves pointer
\* positions
PointerMoves == UNION {[1 .. n -> Points] : n \in 1 .. MaxMoves}

\* the state after the pan listener has handled the moves ps, in order
RECURSIVE pan_mousemoves(_, _)
pan_mousemoves(s, ps) ==
    IF ps = <<>> THEN s ELSE pan_mousemoves(pan_mousemove(s, Head(ps)), Tail(ps))

\* C15 (pan gesture). While drag_state is Pan{prev_pos}, a pointer move to pos
\* adds pos - prev_pos to pan_zoom.pan and sets prev_pos = pos, whatever the
\* zoom, and changes nothing else (zoom, node positions, selection, graph);
\* after any sequence of moves the pan has changed by the last pointer
\* position minus the position the sequence started from.
C15_PanGesture ==
    (~panicked /\ Dragging("Pan")) =>
    LET prev_pos == drag_state.val.prev_pos IN
    /\ \A pos \in Points :
          pan_mousemove(S, pos) =
              [S EXCEPT !.pan_zoom = [pan |-> VAdd(pan_zoom.pan, VSub(pos, prev_pos)),
                                      zoom |-> pan_zoom.zoom],
                        !.drag_state = Some(Pan(pos))]
    /\ \A ps \in PointerMoves :
          pan_mousemoves(S, ps) =
              [S EXCEPT !.pan_zoom = [pan |-> VAdd(pan_zoom.pan,
                                                  VSub(ps[Len(ps)], prev_pos)),
                                      zoom |-> pan_zoom.zoom],
                        !.drag_state = Some(Pan(ps[Len(ps)]))]

\* a pan gesture that started at (0,0) is in progress at a zoom other than 1
\* over a selected node; the pointer goes to (4,2), back, and to (4,2) again
C15_Witness ==
    /\ ~panicked
    /\ Dragging("Pan")
    /\ event_listener = Some(Listeners("Pan"))
    /\ drag_state.val.prev_pos = vec2(0, 0)
    /\ pan_zoom.zoom # R(1)
    /\ selected_nodes # {}
    /\ LET ps == <<vec2(4, 2), vec2(0, 0), vec2(4, 2)>> IN
       /\ ps \in PointerMoves
       /\ pan_mousemoves(S, ps).pan_zoom.pan = VAdd(pan_zoom.pan, vec2(4, 2))
       /\ pan_mousemoves(S, ps).node_positions = node_positions

\* the zoom one wheel event asks for
WheelTarget(sign_negative) ==
    RAdd(pan_zoom.zoom, IF sign_negative THEN WheelStep ELSE RNeg(WheelStep))

ZoomInRange(z) == ~RLt(z, ZoomMin) /\ ~RLt(ZoomMax, z)

C16_WitnessLow ==
    /\ ~panicked
    /\ pan_zoom.zoom = ZoomMin
    /\ \A pos \in Points :
          /\ wheel(S, FALSE, pos) = S
          /\ wheel(S, TRUE, pos).pan_zoom.zoom = Rat(1, 5)

\* The points, factors and transforms the PanZoom operations are applied to:
\* integer points, the factors of the calls and 3 (the factor of the doc
\* tests), and PanZooms.
Anchors == Points \cup {vec2(-3, 5)}

Factors == ZoomFactors \cup {R(3)}

\* the values of the doc tests of from_zoom_to_pos and zoom_to_pos
\* (state/ui_state.rs:24-82)
DocTestZoomToPos ==
    LET p_a == vec2(24, 43)
        p_b == vec2(8, 58)
        t0 == from_zoom_to_pos(R(3), p_a)
        t1 == zoom_to_pos([pan |-> vec2(35, 23), zoom |-> R(2)], R(3), vec2(94, 38))
        p == vec2(52, 8)
        t2 == zoom_to_pos(t1, RDiv(R(12), t1.zoom), p)
    IN  /\ t0 = [pan |-> vec2(-48, -86), zoom |-> R(3)]
        /\ logical2screen(t0, p_a) = p_a
        /\ logical2screen(t0, p_b) = vec2(-24, 88)
        /\ t1 = [pan |-> vec2(-341, -129), zoom |-> R(6)]
        /\ t2 = [pan |-> vec2(-653, -177), zoom |-> R(12)]
        /\ logical2screen(t2, p) = logical2screen(t1, p)

\* C17 (zoom-anchor invariance). For the editor's PanZoom, every factor f and
\* every logical anchor a, zoom_to_pos(f, a) multiplies the zoom by f and
\* leaves logical2screen(a) where it was; it is self * from_zoom_to_pos(f, a),
\* and from_zoom_to_pos(f, a) maps a to a.  A wheel event at screen position
\* s keeps the logical point that was under s at s.
C17_ZoomAnchor ==
    ~panicked =>
    /\ \A f \in Factors, a \in Anchors :
          LET t == zoom_to_pos(pan_zoom, f, a) IN
          /\ t.zoom = RMul(pan_zoom.zoom, f)
          /\ logical2screen(t, a) = logical2screen(pan_zoom, a)
          /\ t = MulPanZoom(pan_zoom, from_zoom_to_pos(f, a))
          /\ logical2screen(from_zoom_to_pos(f, a), a) = a
    /\ \A sn \in BOOLEAN, sp \in Anchors :
          logical2screen(wheel(S, sn, sp).pan_zoom, screen2logical(pan_zoom, sp)) = sp
    /\ DocTestZoomToPos

\* the view is zoomed to 2 and panned by a fraction; zooming by 1/2 about
\* (4,2) moves the pan, keeps the anchor and moves another point, and a wheel
\* event downwards at (4,2) changes the zoom
C17_Witness ==
    /\ ~panicked
    /\ pan_zoom.zoom = R(2)
    /\ pan_zoom.pan[1][2] > 1
    /\ LET a == vec2(4, 2)
           t == zoom_to_pos(pan_zoom, Rat(1, 2), a)
       IN  /\ t.pan # pan_zoom.pan
           /\ t.zoom = R(1)
           /\ logical2screen(t, a) = logical2screen(pan_zoom, a)
           /\ logical2screen(t, ZERO) # logical2screen(pan_zoom, ZERO)
           /\ wheel(S, FALSE, a).pan_zoom.zoom = Rat(19, 10)

\* C18 (round trip). For the editor's PanZoom (its zoom is never 0) and every
\* point p, screen2logical(logical2screen(p)) = p and
\* logical2screen(screen2logical(p)) = p, and inverse(inverse(t)) = t.
C18_RoundTrip ==
    ~panicked =>
    /\ pan_zoom.zoom # R(0)
    /\ \A p \in Anchors :
          /\ screen2logical(pan_zoom, logical2screen(pan_zoom, p)) = p
          /\ logical2screen(pan_zoom, screen2logical(pan_zoom, p)) = p
    /\ inverse(inverse(pan_zoom)) = pan_zoom

\* a transform that neither maps nor inverts trivially: zoom 1/4, a fractional
\* pan, and a point that goes to two other points under it and its inverse
C18_Witness ==
    /\ ~panicked
    /\ pan_zoom.zoom = Rat(1, 4)
    /\ pan_zoom.pan[1][2] > 1 /\ pan_zoom.pan[2] # R(0)
    /\ inverse(pan_zoom) # pan_zoom
    /\ LET p == vec2(-3, 5) IN
       /\ logical2screen(pan_zoom, p) # p
       /\ screen2logical(pan_zoom, p) # p
       /\ screen2logical(pan_zoom, p) # logical2screen(pan_zoom, p)
       /\ screen2logical(pan_zoom, logical2screen(pan_zoom, p)) = p

\* the values of test::mul_v2_test and test::mul_self_test
\* (state/ui_state.rs:133-169)
TestMul ==
    LET a == [pan |-> vec2(43, 58), zoom |-> R(3)]
        b == [pan |-> vec2(25, 79), zoom |-> R(4)]
    IN  /\ MulVec(a, vec2(74, 34)) = vec2(265, 160)
        /\ MulPanZoom(a, b) = [pan |-> vec2(118, 295), zoom |-> R(12)]

\* C19 (monoid). With a the editor's PanZoom, for all transforms b, c and
\* points p: a * p = a.zoom * p + a.pan, (a * b) * p = a * (b * p),
\* (a * b) * c = a * (b * c), and the default transform is a left and a right
\* identity.
C19_Monoid ==
    ~panicked =>
    LET a == pan_zoom IN
    /\ \A p \in Anchors :
          MulVec(a, p) = <<RAdd(RMul(a.zoom, p[1]), a.pan[1]),
                           RAdd(RMul(a.zoom, p[2]), a.pan[2])>>
    /\ \A b \in PanZooms, p \in Anchors :
          /\ MulVec(MulPanZoom(a, b), p) = MulVec(a, MulVec(b, p))
          /\ MulVec(MulPanZoom(b, a), p) = MulVec(b, MulVec(a, p))
    /\ \A b, c \in PanZooms :
          /\ MulPanZoom(MulPanZoom(a, b), c) = MulPanZoom(a, MulPanZoom(b, c))
          /\ MulPanZoom(MulPanZoom(b, a), c) = MulPanZoom(b, MulPanZoom(a, c))
          /\ MulPanZoom(MulPanZoom(b, c), a) = MulPanZoom(b, MulPanZoom(c, a))
    /\ MulPanZoom(PanZoomDefault, a) = a
    /\ MulPanZoom(a, PanZoomDefault) = a
    /\ TestMul

\* a transform that is not the identity and does not commute with another
\* one: the order of composition matters
C19_Witness ==
    /\ ~panicked
    /\ pan_zoom.zoom = R(4)
    /\ pan_zoom.pan[1][2] > 1
    /\ \E b \in PanZooms :
          /\ MulPanZoom(pan_zoom, b) # MulPanZoom(b, pan_zoom)
          /\ MulPanZoom(pan_zoom, b) # pan_zoom
          /\ MulPanZoom(pan_zoom, b) # b

\* C20 (release returns to idle). For every gesture started through the
\* component, the document mouse-up that ends it leaves drag_state = None and
\* removes the drag listeners: while listeners are installed, the mouse-up
\* handler returns with drag_state = None, and once they are removed no drag
\* state is left.
C20_ReleaseReturnsToIdle ==
    ~panicked =>
    IF event_listener.tag = "Some"
    THEN LET r == drag_mouseup(S, event_listener.val.gesture) IN
         ~r.panic /\ r.s.drag_state = None
    ELSE drag_state = None

\* What holds of the release in every state of the component (C20 without the
\* pan): the mouse-up of the node, port and select-box gestures returns with
\* drag_state = None whatever the drag state was; the mouse-up of the pan
\* gesture leaves the state as it is, drag state included; and the only drag
\* state found with no listeners installed is a Pan.
ReleaseOfOtherGestures ==
    ~panicked =>
    IF event_listener.tag = "Some"
    THEN LET r == drag_mouseup(S, event_listener.val.gesture) IN
         /\ ~r.panic
         /\ IF event_listener.val.gesture = "Pan"
            THEN r.s = S /\ Dragging("Pan")
            ELSE r.s.drag_state = None
    ELSE drag_state = None \/ Dragging("Pan")

\* the pan gesture has been released: no listeners, and the drag state is
\* still Pan
PanOutlivesRelease ==
    /\ ~panicked
    /\ event_listener = None
    /\ Dragging("Pan")

----------------------------------------------------------------------------
(* C21 .. C30                                                              *)

\* C21: move_connection(pos) changes nothing but the free end of a connection
\* gesture, and that only while the end is free (ConnectTo::Pos): the end
\* becomes Pos(pos).  While the end is snapped to a port (ConnectTo::Id), and
\* in every other drag state, one call and any further call leave the whole
\* state as it was; the source port and Connections never change.
C21_MoveConnection ==
    ~panicked =>
        \A pos \in Points, pos2 \in Points :
            LET r == move_connection(S, pos)
                rr == move_connection(r, pos2)
            IN  /\ r.graph = graph
                /\ [r EXCEPT !.drag_state = drag_state] = S
                /\ IF Dragging("ConnectPort")
                   THEN /\ r.drag_state.tag = "Some"
                        /\ r.drag_state.val.tag = "ConnectPort"
                        /\ r.drag_state.val.c.tag = drag_state.val.c.tag
                        /\ r.drag_state.val.c.src = drag_state.val.c.src
                        /\ IF Snapped
                           THEN r = S /\ rr = S
                           ELSE r.drag_state.val.c.dest = ToPos(pos)
                   ELSE r = S /\ rr = S

\* a connection gesture snapped to a port, the pointer moving on
C21_Witness ==
    /\ ~panicked
    /\ Snapped
    /\ \E pos \in Points : move_connection(S, pos) = S

\* the ports a MouseEnter on q would join: <<output, input>>, when q has the
\* direction opposite to the gesture's source
GatePair(q) ==
    IF drag_state.val.c.tag = "FromOutput"
    THEN <<drag_state.val.c.src, q.id>> ELSE <<q.id, drag_state.val.c.src>>

\* q has the direction opposite to the source, the two ports are in the
\* arenas, on different nodes, and of one data type
GateOpen(q) ==
    /\ q.tag = (IF drag_state.val.c.tag = "FromOutput" THEN "Input" ELSE "Output")
    /\ GatePair(q)[1] \in LiveOutputs
    /\ GatePair(q)[2] \in LiveInputs
    /\ sm_value(graph.outputs, GatePair(q)[1]).node
            # sm_value(graph.inputs, GatePair(q)[2]).node
    /\ sm_value(graph.outputs, GatePair(q)[1]).typ
            = sm_value(graph.inputs, GatePair(q)[2]).typ

\* C22: a MouseEnter on port q during a connection gesture snaps the free end
\* to q only if q has the direction opposite to the source port, the two ports
\* have equal data types and they belong to different nodes; in every other
\* case, and outside a connection gesture, the handler leaves the state as it
\* was.  Hence every edge the component's events have put in Connections
\* joins an output and an input of two different nodes and of one data type.
C22_SnapGating ==
    ~panicked =>
        /\ \A q \in LivePorts :
              LET r == port_mouseenter(S, q) IN
              IF Dragging("ConnectPort") /\ GateOpen(q)
              THEN /\ ~r.panic
                   /\ r.s = [S EXCEPT !.drag_state.val.c.dest = ToIdOf(q.id)]
              ELSE r.s = S
        /\ \A e \in Edges(graph) :
              /\ e[1] \in LiveInputs /\ e[2] \in LiveOutputs
              /\ sm_value(graph.inputs, e[1]).node # sm_value(graph.outputs, e[2]).node
              /\ sm_value(graph.inputs, e[1]).typ = sm_value(graph.outputs, e[2]).typ

\* a gesture in progress beside an edge that an earlier gesture committed: one
\* port would take the snap, another of the opposite direction is refused
C22_Witness ==
    /\ ~panicked
    /\ Dragging("ConnectPort")
    /\ Edges(graph) # {}
    /\ \E q \in LivePorts :
          /\ GateOpen(q)
          /\ port_mouseenter(S, q).s.drag_state.val.c.dest = ToIdOf(q.id)
    /\ \E q \in LivePorts :
          /\ q.tag = (IF drag_state.val.c.tag = "FromOutput" THEN "Input" ELSE "Output")
          /\ ~GateOpen(q)
          /\ port_mouseenter(S, q).s = S

\* referential integrity of a graph: every edge joins an input and an output
\* of the arenas, and every (name, id) pair of a node's port lists is a port
\* of the arena whose node field is that node's id
Integrity(g) ==
    /\ \A e \in Edges(g) :
          e[1] \in sm_keys(g.inputs) /\ e[2] \in sm_keys(g.outputs)
    /\ \A n \in sm_keys(g.nodes) :
          LET node == sm_value(g.nodes, n) IN
          /\ \A j \in 1..Len(node.inputs) :
                /\ node.inputs[j][2] \in sm_keys(g.inputs)
                /\ sm_value(g.inputs, node.inputs[j][2]).node = n
          /\ \A j \in 1..Len(node.outputs) :
                /\ node.outputs[j][2] \in sm_keys(g.outputs)
                /\ sm_value(g.outputs, node.outputs[j][2]).node = n

\* C23: the graph has referential integrity after any sequence of calls, with
\* live ids, of add_node (with its closure), add_input_param,
\* add_output_param, remove_node, remove_input_param, remove_output_param,
\* add_connection and remove_connection, and of connection gestures of the
\* editor: it holds in every state these calls reach, none of the calls that
\* remove fails, and a port added to a live node leaves a graph that has it.
C23_ReferentialIntegrity ==
    ~panicked =>
        /\ Integrity(graph)
        /\ \A n \in LiveNodes :
              /\ ~remove_node(graph, n).panic
              /\ \A name \in ParamNames, typ \in ParamTypes :
                    /\ Integrity(add_input_param(graph, n, name, typ).graph)
                    /\ Integrity(add_output_param(graph, n, name, typ).graph)
        /\ \A i \in LiveInputs : ~remove_input_param(graph, i).panic
        /\ \A o \in LiveOutputs : ~remove_output_param(graph, o).panic

\* two nodes joined by an edge, one of them having lost its input port
C23_Witness ==
    /\ ~panicked
    /\ \E e \in Edges(graph) :
          sm_value(graph.inputs, e[1]).node # sm_value(graph.outputs, e[2]).node
    /\ \E n \in LiveNodes : sm_value(graph.nodes, n).inputs = <<>>

\* seq without its j-th element
Without(seq, j) == SubSeq(seq, 1, j - 1) \o SubSeq(seq, j + 1, Len(seq))

\* the arena m2 is the arena m without the key k: the other keys hold what
\* they held
ArenaWithout(m2, m, k) ==
    /\ sm_keys(m2) = sm_keys(m) \ {k}
    /\ \A x \in sm_keys(m2) : sm_value(m2, x) = sm_value(m, x)

\* C24: remove_input_param(i) takes the port out of the inputs arena and out
\* of the owning node's input list, whose other entries keep their order, and
\* removes the edge into i; remove_output_param(o) does the same for an output
\* and removes every edge o drives.  The owning node is otherwise unchanged,
\* and so are the other nodes, the other ports and the other edges.
C24_RemoveParam ==
    ~panicked =>
        /\ \A i \in LiveInputs :
              LET r == remove_input_param(graph, i)
                  n == sm_value(graph.inputs, i).node
                  old == sm_value(graph.nodes, n)
              IN  /\ ~r.panic
                  /\ ArenaWithout(r.graph.inputs, graph.inputs, i)
                  /\ r.graph.outputs = graph.outputs
                  /\ \E j \in 1..Len(old.inputs) :
                        /\ old.inputs[j][2] = i
                        /\ sm_value(r.graph.nodes, n)
                             = [old EXCEPT !.inputs = Without(old.inputs, j)]
                  /\ sm_keys(r.graph.nodes) = LiveNodes
                  /\ \A m \in LiveNodes \ {n} :
                        sm_value(r.graph.nodes, m) = sm_value(graph.nodes, m)
                  /\ Edges(r.graph) = {e \in Edges(graph) : e[1] # i}
        /\ \A o \in LiveOutputs :
              LET r == remove_output_param(graph, o)
                  n == sm_value(graph.outputs, o).node
                  old == sm_value(graph.nodes, n)
              IN  /\ ~r.panic
                  /\ ArenaWithout(r.graph.outputs, graph.outputs, o)
                  /\ r.graph.inputs = graph.inputs
                  /\ \E j \in 1..Len(old.outputs) :
                        /\ old.outputs[j][2] = o
                        /\ sm_value(r.graph.nodes, n)
                             = [old EXCEPT !.outputs = Without(old.outputs, j)]
                  /\ sm_keys(r.graph.nodes) = LiveNodes
                  /\ \A m \in LiveNodes \ {n} :
                        sm_value(r.graph.nodes, m) = sm_value(graph.nodes, m)
                  /\ Edges(r.graph) = {e \in Edges(graph) : e[2] # o}

\* a node of three inputs, the middle one connected, and of two outputs, one
\* of them driving two edges and the other one a third
C24_Witness ==
    /\ ~panicked
    /\ \E n \in LiveNodes :
          LET node == sm_value(graph.nodes, n) IN
          /\ Len(node.inputs) = 3
          /\ sec_contains(graph.connections, node.inputs[2][2])
          /\ Edges(remove_input_param(graph, node.inputs[2][2]).graph) # Edges(graph)
    /\ \E o \in LiveOutputs, p \in LiveOutputs :
          /\ o # p
          /\ Cardinality({e \in Edges(graph) : e[2] = o}) = 2
          /\ Cardinality({e \in Edges(graph) : e[2] = p}) = 1
          /\ Cardinality(Edges(remove_output_param(graph, o).graph)) = 1

\* C25: remove_node(n) returns the node it removed and a list that holds
\* exactly the edges that were in Connections and had their input or their
\* output on n, each of them once, an edge with both ends on n included; the
\* edges that do not touch n stay in Connections.
C25_RemoveNodeReturn ==
    ~panicked =>
        \A n \in LiveNodes :
            LET r == remove_node(graph, n) IN
            /\ ~r.panic
            /\ r.node = sm_value(graph.nodes, n)
            /\ Range(r.disconnected) = Incident(graph, n)
            /\ Len(r.disconnected) = Cardinality(Incident(graph, n))
            /\ Edges(r.graph) = Edges(graph) \ Incident(graph, n)

\* a node whose output drives its own input and the input of another node:
\* removing it reports the two edges, the first of them once
C25_Witness ==
    /\ ~panicked
    /\ \E n \in LiveNodes :
          /\ \E e \in Edges(graph) :
                e[1] \in InputsOf(graph, n) /\ e[2] \in OutputsOf(graph, n)
          /\ \E e \in Edges(graph) :
                e[1] \notin InputsOf(graph, n) /\ e[2] \in OutputsOf(graph, n)
          /\ Len(remove_node(graph, n).disconnected) = 2

\* a node with an edge of its own beside a node that is removed: the edge stays
RemoveNodeKeepsOtherEdges ==
    /\ ~panicked
    /\ \E n \in LiveNodes :
          /\ Incident(graph, n) # {}
          /\ Edges(graph) \ Incident(graph, n) # {}
          /\ Edges(remove_node(graph, n).graph) = Edges(graph) \ Incident(graph, n)

\* the keys an arena handed out and holds no more
Removed(m) ==
    UNION {{<<i, v>> : v \in {w \in 1..m.slots[i].version : w % 2 = 1}} :
             i \in 1..Len(m.slots)} \ sm_keys(m)

\* the names asked for: those the ports were given, and one no port has
AskedNames == {"a", "b", "out", "s", "none"}

\* C26: graph[node_id] panics for the id of a removed node.  The lookups that
\* can be recovered from report the absence: connection(input) is None for an
\* input without an edge and for a removed input; get_input and get_output of
\* the graph are None for a removed port; any_param_type is
\* Err(InvalidParameterId) for a removed port; Node::get_input and
\* Node::get_output are Err(NoParameterNamed) for a name the node has no port
\* of.  On what is there they give the node, the port, its type, the id.
C26_Lookups ==
    ~panicked =>
        /\ \A n \in Removed(graph.nodes) : index_node(graph, n).panic
        /\ \A n \in LiveNodes :
              /\ ~index_node(graph, n).panic
              /\ index_node(graph, n).ret.id = n
        /\ \A i \in Removed(graph.inputs) :
              /\ connection(graph, i) = None
              /\ get_input(graph, i) = None
              /\ any_param_type(graph, Input(i)) = ResultErr(InvalidParameterId(Input(i)))
        /\ \A i \in LiveInputs :
              /\ (\A e \in Edges(graph) : e[1] # i) => connection(graph, i) = None
              /\ get_input(graph, i).tag = "Some" /\ get_input(graph, i).val.id = i
              /\ any_param_type(graph, Input(i)) = ResultOk(get_input(graph, i).val.typ)
        /\ \A o \in Removed(graph.outputs) :
              /\ get_output(graph, o) = None
              /\ any_param_type(graph, Output(o)) = ResultErr(InvalidParameterId(Output(o)))
        /\ \A o \in LiveOutputs :
              /\ get_output(graph, o).tag = "Some" /\ get_output(graph, o).val.id = o
              /\ any_param_type(graph, Output(o)) = ResultOk(get_output(graph, o).val.typ)
        /\ \A n \in LiveNodes, name \in AskedNames :
              LET node == sm_value(graph.nodes, n) IN
              /\ IF \E j \in 1..Len(node.inputs) : node.inputs[j][1] = name
                 THEN /\ node_get_input(node, name).tag = "Ok"
                      /\ <<name, node_get_input(node, name).val>> \in Range(node.inputs)
                 ELSE node_get_input(node, name) = ResultErr(NoParameterNamed(n, name))
              /\ IF \E j \in 1..Len(node.outputs) : node.outputs[j][1] = name
                 THEN /\ node_get_output(node, name).tag = "Ok"
                      /\ <<name, node_get_output(node, name).val>> \in Range(node.outputs)
                 ELSE node_get_output(node, name) = ResultErr(NoParameterNamed(n, name))

\* a removed node, a removed input whose slot a later input has taken, a
\* removed output, an input without an edge, and a node asked for a name it
\* has no port of
C26_Witness ==
    /\ ~panicked
    /\ Removed(graph.nodes) # {}
    /\ \E i \in Removed(graph.inputs) :
          /\ graph.inputs.slots[i[1]].occupied
          /\ get_input(graph, i) = None
    /\ Removed(graph.outputs) # {}
    /\ \E i \in LiveInputs : connection(graph, i) = None
    /\ \E n \in LiveNodes :
          node_get_input(sm_value(graph.nodes, n), "none").tag = "Err"

\* C27: the port lists of a node are the ports added to it, in the order of
\* the calls, without those removed: add_input_param and add_output_param put
\* the new port, under a fresh id, at the end of the node's list and change
\* no other list (remove_input_param and remove_output_param take one entry
\* out and keep the order of the rest: C24).  add_node allocates the node
\* first, then runs the closure with the new node's id, so that the ports the
\* closure adds are the new node's, in the closure's order, and returns that
\* id.
C27_PortOrder ==
    ~panicked =>
        /\ \A n \in LiveNodes, name \in ParamNames, typ \in ParamTypes :
              LET old == sm_value(graph.nodes, n)
                  ri == add_input_param(graph, n, name, typ)
                  ro == add_output_param(graph, n, name, typ)
              IN  /\ ri.id \notin LiveInputs \cup Removed(graph.inputs)
                  /\ sm_get(ri.graph.inputs, ri.id)
                        = Some([id |-> ri.id, typ |-> typ, node |-> n])
                  /\ sm_value(ri.graph.nodes, n)
                        = [old EXCEPT !.inputs = Append(@, <<name, ri.id>>)]
                  /\ ro.id \notin LiveOutputs \cup Removed(graph.outputs)
                  /\ sm_get(ro.graph.outputs, ro.id)
                        = Some([id |-> ro.id, typ |-> typ, node |-> n])
                  /\ sm_value(ro.graph.nodes, n)
                        = [old EXCEPT !.outputs = Append(@, <<name, ro.id>>)]
                  /\ \A m \in LiveNodes \ {n} :
                        /\ sm_value(ri.graph.nodes, m) = sm_value(graph.nodes, m)
                        /\ sm_value(ro.graph.nodes, m) = sm_value(graph.nodes, m)
        /\ \A t \in Templates :
              LET r == add_node(graph, t)
                  node == sm_value(r.graph.nodes, r.id)
              IN  /\ r.id \notin LiveNodes \cup Removed(graph.nodes)
                  /\ sm_keys(r.graph.nodes) = LiveNodes \cup {r.id}
                  /\ node.id = r.id
                  /\ [j \in 1..Len(node.inputs) |-> node.inputs[j][1]]
                        = [j \in 1..Len(TemplateInputs(t)) |-> TemplateInputs(t)[j][1]]
                  /\ [j \in 1..Len(node.outputs) |-> node.outputs[j][1]]
                        = [j \in 1..Len(TemplateOutputs(t)) |-> TemplateOutputs(t)[j][1]]
                  /\ \A j \in 1..Len(node.inputs) :
                        sm_get(r.graph.inputs, node.inputs[j][2])
                            = Some([id |-> node.inputs[j][2],
                                    typ |-> TemplateInputs(t)[j][2], node |-> r.id])
                  /\ \A j \in 1..Len(node.outputs) :
                        sm_get(r.graph.outputs, node.outputs[j][2])
                            = Some([id |-> node.outputs[j][2],
                                    typ |-> TemplateOutputs(t)[j][2], node |-> r.id])
                  /\ \A m \in LiveNodes :
                        sm_value(r.graph.nodes, m) = sm_value(graph.nodes, m)

\* a node of two inputs that has lost an earlier one, whose slot the second
\* took: the list is in call order and not in key order, and a third input
\* goes to its end
C27_Witness ==
    /\ ~panicked
    /\ Removed(graph.inputs) # {}
    /\ \E n \in LiveNodes :
          LET node == sm_value(graph.nodes, n) IN
          /\ Len(node.inputs) = 2
          /\ node.inputs[1][2][1] > node.inputs[2][2][1]
          /\ LET r == add_input_param(graph, n, "b", "Number") IN
             sm_value(r.graph.nodes, n).inputs[3] = <<"b", r.id>>

\* where the view draws a port: its registered centre less the offset, the
\* zero vector for a port without a registered position
Drawn(key, center, offset) ==
    IF ports_get(port_refs, key).tag = "Some" /\ center.tag = "Some"
    THEN VSub(center.val, offset.val) ELSE ZERO

\* the free end of the connection gesture as the view draws it
DrawnDest(key, center, offset) ==
    IF drag_state.val.c.dest.tag = "Pos" THEN drag_state.val.c.dest.pos
    ELSE Drawn(key, center, offset)

\* what connection_in_progress is to give during a connection gesture: the
\* output-side end, the input-side end, the type of the source port
InProgress(sc, dc, o) ==
    LET c == drag_state.val.c IN
    IF c.tag = "FromOutput"
    THEN <<Drawn(Output(c.src), sc, o), DrawnDest(Input(c.dest.id), dc, o),
           sm_value(graph.outputs, c.src).typ>>
    ELSE <<DrawnDest(Output(c.dest.id), dc, o), Drawn(Input(c.src), sc, o),
           sm_value(graph.inputs, c.src).typ>>

\* the source port of the connection gesture is in its arena
SrcLive ==
    IF drag_state.val.c.tag = "FromOutput"
    THEN drag_state.val.c.src \in LiveOutputs
    ELSE drag_state.val.c.src \in LiveInputs

\* C28, as the claim states it: connection_in_progress and select_box return
\* and leave the editor state unchanged; select_box gives Some(<<start, end>>)
\* exactly when drag_state is SelectBox; connection_in_progress gives Some
\* exactly when drag_state is ConnectPort and the viewport offset is known,
\* and then the output-side end first, the input-side end second and the type
\* of the gesture's source port; a port without a registered position is drawn
\* at the zero vector, by connection_in_progress and by start_connection.
C28_DerivedQueries ==
    ~panicked =>
        /\ select_box(S) =
              Ok(S, IF Dragging("SelectBox")
                    THEN Some(<<drag_state.val.start, drag_state.val.end>>) ELSE None)
        /\ \A sc \in Centers, dc \in Centers, o \in Offsets :
              LET r == connection_in_progress(S, sc, dc, o) IN
              /\ ~r.panic
              /\ r.s = S
              /\ IF Dragging("ConnectPort") /\ o.tag = "Some"
                 THEN r.ret = Some(InProgress(sc, dc, o))
                 ELSE r.ret = None
        /\ \A id \in LivePorts, c \in Centers, o \in Offsets :
              LET r == start_connection(S, id, c, o) IN
              /\ ~r.panic
              /\ r.s.drag_state.val.c.dest
                    = ToPos(IF o.tag = "Some" THEN Drawn(id, c, o) ELSE ZERO)

\* what holds of the two queries in every state: connection_in_progress
\* panics exactly when a connection gesture is in progress, the offset is
\* known and the gesture's source port has been removed; every call that
\* returns satisfies C28
DerivedQueriesOfReturningCalls ==
    ~panicked =>
        /\ select_box(S) =
              Ok(S, IF Dragging("SelectBox")
                    THEN Some(<<drag_state.val.start, drag_state.val.end>>) ELSE None)
        /\ \A sc \in Centers, dc \in Centers, o \in Offsets :
              LET r == connection_in_progress(S, sc, dc, o) IN
              /\ r.panic <=> (Dragging("ConnectPort") /\ o.tag = "Some" /\ ~SrcLive)
              /\ r.s = S
              /\ ~r.panic =>
                    IF Dragging("ConnectPort") /\ o.tag = "Some"
                    THEN r.ret = Some(InProgress(sc, dc, o))
                    ELSE r.ret = None
        /\ \A id \in LivePorts, c \in Centers, o \in Offsets :
              LET r == start_connection(S, id, c, o) IN
              /\ ~r.panic
              /\ r.s.drag_state.val.c.dest
                    = ToPos(IF o.tag = "Some" THEN Drawn(id, c, o) ELSE ZERO)

\* a connection gesture whose source port went with its node: the view's call
\* of connection_in_progress panics
QueryOfDeletedSource ==
    /\ ~panicked
    /\ Dragging("ConnectPort")
    /\ ~SrcLive
    /\ connection_in_progress(S, None, None, Some(vec2(2, 2))).panic

\* a gesture snapped to a port that has no registered position any more: the
\* query returns and draws that end at the zero vector
QueryOfUnregisteredPort ==
    /\ ~panicked
    /\ Snapped
    /\ SrcLive
    /\ drag_state.val.c.tag = "FromOutput"
    /\ ports_get(port_refs, Input(drag_state.val.c.dest.id)) = None
    /\ LET r == connection_in_progress(S, Some(vec2(6, 4)), Some(vec2(6, 4)),
                                       Some(vec2(2, 2)))
       IN  ~r.panic /\ r.ret.val[2] = ZERO /\ r.ret.val[1] = vec2(4, 2)

\* C29: the Delete event of node n makes the component emit one
\* DeleteNode{node_id: n} response, carrying the removed node, and after it
\* one DisconnectEvent{output, input} for each edge that remove_node(n)
\* severed, and nothing else: the first response is the DeleteNode, the others
\* are as many DisconnectEvents as there were edges on n, one for each.
C29_DeleteNotifications ==
    ~panicked =>
        \A n \in LiveNodes :
            LET r == node_delete(S, n) IN
            /\ ~r.panic
            /\ r.s = delete_node(S, n).s
            /\ Len(r.ret) = 1 + Cardinality(Incident(graph, n))
            /\ r.ret[1] = ResponseDeleteNode(n, sm_value(graph.nodes, n))
            /\ \A j \in 2..Len(r.ret) :
                  /\ r.ret[j].tag = "DisconnectEvent"
                  /\ <<r.ret[j].input, r.ret[j].output>> \in Incident(graph, n)
            /\ \A e \in Incident(graph, n) :
                  \E j \in 2..Len(r.ret) : r.ret[j] = ResponseDisconnectEvent(e[2], e[1])

\* a node with an edge into its input and an edge out of its output, both
\* made by gestures: its Delete event emits three responses
C29_Witness ==
    /\ ~panicked
    /\ \E n \in LiveNodes :
          /\ Cardinality(Incident(graph, n)) = 2
          /\ Len(node_delete(S, n).ret) = 3
          /\ node_delete(S, n).ret[1].tag = "DeleteNode"

\* C30, as the claim states it: after any sequence of create_node,
\* delete_node, selection and box-select gestures every id in selected_nodes
\* is the id of a node of the graph.
C30_SelectionInGraph ==
    ~panicked => selected_nodes \subseteq LiveNodes

\* what holds of the selection in every state: from a selection inside the
\* graph, create_node, delete_node, selection, start_select_box and
\* scale_select_box stay inside the graph, and so does end_select_box unless
\* the box holds the position of a deleted node
SelectionStepsInsideGraph ==
    ~panicked =>
        /\ selected_nodes \subseteq LiveNodes =>
              /\ \A t \in Templates :
                    create_node(S, t).s.selected_nodes
                        \subseteq sm_keys(create_node(S, t).s.graph.nodes)
              /\ \A n \in LiveNodes :
                    /\ delete_node(S, n).s.selected_nodes \subseteq LiveNodes \ {n}
                    /\ \A k \in BOOLEAN : selection(S, n, k).selected_nodes \subseteq LiveNodes
              /\ \A p \in Points :
                    /\ start_select_box(S, p).selected_nodes \subseteq LiveNodes
                    /\ scale_select_box(S, p).selected_nodes \subseteq LiveNodes
              /\ end_select_box(S).selected_nodes \ LiveNodes
                    \subseteq sec_keys(node_positions) \ LiveNodes

\* a box drawn over the place of a deleted node, the selection being inside
\* the graph: end_select_box selects the deleted node
BoxSelectsDeletedNode ==
    /\ ~panicked
    /\ Dragging("SelectBox")
    /\ selected_nodes \subseteq LiveNodes
    /\ \E k \in sec_keys(node_positions) \ LiveNodes :
          k \in end_select_box(S).selected_nodes

----------------------------------------------------------------------------
(* C31 .. C40                                                              *)

\* the ids the drag state names are in the graph: the source port of a
\* connection gesture, the port its free end is snapped to, the node of a
\* move gesture
GestureIdsLive(s) ==
    IF s.drag_state.tag = "None" THEN TRUE
    ELSE LET d == s.drag_state.val IN
         CASE d.tag = "ConnectPort" ->
                 /\ IF d.c.tag = "FromOutput"
                    THEN sm_contains(s.graph.outputs, d.c.src)
                    ELSE sm_contains(s.graph.inputs, d.c.src)
                 /\ d.c.dest.tag = "Id" =>
                       IF d.c.tag = "FromOutput"
                       THEN sm_contains(s.graph.inputs, d.c.dest.id)
                       ELSE sm_contains(s.graph.outputs, d.c.dest.id)
           [] d.tag = "MoveNode" -> sm_contains(s.graph.nodes, d.id)
           [] OTHER -> TRUE

\* C31, as the claim states it: in every reachable state the source port of
\* an active connection gesture, the port it is snapped to and the node of an
\* active move gesture are in the graph, and so end_connection,
\* connection_in_progress and move_node return.
C31_GesturesReferenceLiveIds ==
    ~panicked =>
        /\ GestureIdsLive(S)
        /\ ~end_connection(S).panic
        /\ \A c \in Centers, o \in Offsets : ~connection_in_progress(S, c, c, o).panic
        /\ \A p \in Points : ~move_node(S, p).panic

\* what holds of the gesture ids in every state: from a state whose gesture
\* ids are in the graph, every operation but delete_node leaves them in the
\* graph, and delete_node(n) leaves them there exactly when the gesture
\* names neither n nor a port of n
GestureIdsLeaveGraphOnlyByDelete ==
    (~panicked /\ GestureIdsLive(S)) =>
        /\ \A t \in Templates : GestureIdsLive(create_node(S, t).s)
        /\ \A n \in LiveNodes, k \in BOOLEAN, sh \in Shifts :
              /\ GestureIdsLive(selection(S, n, k))
              /\ GestureIdsLive(start_moving_node(S, n, sh))
        /\ \A id \in LivePorts, c \in Centers, o \in Offsets :
              GestureIdsLive(start_connection(S, id, c, o).s)
        /\ \A id \in LivePorts :
              Dragging("ConnectPort") =>
                  GestureIdsLive([S EXCEPT !.drag_state.val.c = to_id(@, id)])
        /\ \A p \in Points :
              /\ GestureIdsLive(move_connection(S, p))
              /\ GestureIdsLive(start_select_box(S, p))
              /\ GestureIdsLive(scale_select_box(S, p))
        /\ GestureIdsLive(end_connection(S).s)
        /\ GestureIdsLive(end_moving_node(S))
        /\ GestureIdsLive(end_select_box(S))
        /\ \A n \in LiveNodes :
              GestureIdsLive(delete_node(S, n).s) <=>
                 ~ \/ Dragging("MoveNode") /\ drag_state.val.id = n
                   \/ /\ Dragging("ConnectPort")
                      /\ \/ /\ drag_state.val.c.tag = "FromInput"
                            /\ drag_state.val.c.src \in InputsOf(graph, n)
                         \/ /\ drag_state.val.c.tag = "FromOutput"
                            /\ drag_state.val.c.src \in OutputsOf(graph, n)
                         \/ /\ Snapped
                            /\ \/ SnapInput \in InputsOf(graph, n)
                               \/ SnapOutput \in OutputsOf(graph, n)

\* a connection gesture whose source port went with its node
GestureOfDeletedPort ==
    /\ ~panicked
    /\ Dragging("ConnectPort")
    /\ ~SrcLive

\* a move gesture whose node was deleted
GestureOfDeletedNode ==
    /\ ~panicked
    /\ Dragging("MoveNode")
    /\ drag_state.val.id \notin LiveNodes

\* C32, as the claim states it: while the listeners of a node mouse-down are
\* installed, drag_state is MoveNode, and every mousemove they receive has
\* move_node return Some, so the handler's unwrap does not panic.
C32_NodeDragNeverFails ==
    ~panicked =>
        (event_listener = Some(Listeners("MoveNode")) =>
            /\ Dragging("MoveNode")
            /\ \A p \in Points : ~node_mousemove(S, p).panic)

\* what holds of the node mouse-down in every state of the component: on an
\* unselected node, and without the shift key on a selected one, it leaves
\* drag_state = MoveNode for that node and the mousemove that follows
\* returns; with the shift key on a selected node it unselects the node and
\* leaves the drag state as it was
NodeMouseDownStartsMoveUnlessUnselecting ==
    ~panicked =>
        \A n \in LiveNodes, sh \in Shifts, k \in BOOLEAN :
            LET r == node_mousedown(S, n, sh, k) IN
            IF k /\ n \in selected_nodes
            THEN r = [S EXCEPT !.selected_nodes = @ \ {n}]
            ELSE /\ r.drag_state = Some(MoveNodeState(n, sh))
                 /\ n \in r.selected_nodes
                 /\ \A p \in Points : ~node_mousemove(r, p).panic

\* a shift mouse-down on a selected node has installed the node listeners
\* over an idle drag state: the next mousemove panics in unwrap
NodeListenersOverIdleState ==
    /\ ~panicked
    /\ event_listener = Some(Listeners("MoveNode"))
    /\ drag_state = None
    /\ node_mousemove(S, vec2(4, 2)).panic

\* the edges a handler took out of Connections, and those its responses
\* report as disconnected
Gone(r) == Edges(graph) \ Edges(r.s.graph)
Announced(r) ==
    {<<r.ret[j].input, r.ret[j].output>> :
        j \in {k \in 1..Len(r.ret) : r.ret[k].tag = "DisconnectEvent"}}

\* C33: every edge that leaves Connections through a component event (the
\* delete button of a node, a mouse-down on a connected input, a mouse-up
\* that commits onto an already-connected input) is reported by a
\* DisconnectEvent carrying that edge's output and input.
C33_RemovalsNotified ==
    ~panicked =>
        /\ \A n \in LiveNodes :
              LET r == node_delete(S, n) IN ~r.panic => Gone(r) \subseteq Announced(r)
        /\ \A id \in LivePorts :
              LET r == port_mousedown(S, id, Some(vec2(6, 4)), Some(vec2(2, 2))) IN
              ~r.panic => Gone(r) \subseteq Announced(r)
        /\ LET r == port_mouseup(S) IN ~r.panic => Gone(r) \subseteq Announced(r)

\* What does hold: the delete button and the port mouse-down report every
\* edge they remove; a mouse-up that returns reports none, and removes one
\* exactly when it commits onto an input that was connected to another output.
RemovalsNotifiedExceptOverwrite ==
    ~panicked =>
        /\ \A n \in LiveNodes :
              LET r == node_delete(S, n) IN ~r.panic => Gone(r) = Announced(r)
        /\ \A id \in LivePorts :
              LET r == port_mousedown(S, id, Some(vec2(6, 4)), Some(vec2(2, 2))) IN
              ~r.panic => Gone(r) = Announced(r)
        /\ LET r == port_mouseup(S) IN
              ~r.panic =>
              /\ Announced(r) = {}
              /\ Gone(r) = IF Snapped /\ sec_contains(graph.connections, SnapInput)
                              /\ sec_value(graph.connections, SnapInput) # SnapOutput
                           THEN {<<SnapInput, sec_value(graph.connections, SnapInput)>>}
                           ELSE {}

\* a gesture snapped onto an input that another output feeds: the mouse-up
\* replaces that edge and emits ConnectEventEnded only
SilentOverwrite ==
    /\ ~panicked
    /\ event_listener = Some(Listeners("ConnectPort"))
    /\ SnappedLive
    /\ sec_contains(graph.connections, SnapInput)
    /\ sec_value(graph.connections, SnapInput) # SnapOutput
    /\ port_mouseup(S).ret = <<ResponseConnectEventEnded(SnapOutput, SnapInput)>>
    /\ Gone(port_mouseup(S)) # {}

\* the edges the responses of a handler report as connected
Ended(r) ==
    {<<r.ret[j].input, r.ret[j].output>> :
        j \in {k \in 1..Len(r.ret) : r.ret[k].tag = "ConnectEventEnded"}}

\* C34: the mouse-up of a connection gesture emits ConnectEventEnded{output,
\* input} exactly when it inserts the edge (input -> output), and no other
\* component event (delete button, port mouse-down, enter, leave, mousemove,
\* creation from the finder) puts an edge into Connections or emits it.
C34_ConnectEventEnded ==
    ~panicked =>
        /\ LET r == port_mouseup(S) IN
           ~r.panic =>
              /\ Len(r.ret) <= 1
              /\ Ended(r) = {<<r.ret[j].input, r.ret[j].output>> : j \in 1..Len(r.ret)}
              /\ \A e \in Ended(r) :
                    /\ Snapped /\ e = <<SnapInput, SnapOutput>>
                    /\ r.s.graph.connections = sec_insert(graph.connections, e[1], e[2])
                    /\ e \in Edges(r.s.graph)
              /\ Ended(r) = {} => r.s.graph = graph
              /\ Edges(r.s.graph) \ Edges(graph) \subseteq Ended(r)
        /\ \A n \in LiveNodes :
              LET r == node_delete(S, n) IN
              ~r.panic => Ended(r) = {} /\ Edges(r.s.graph) \subseteq Edges(graph)
        /\ \A id \in LivePorts :
              /\ LET r == port_mousedown(S, id, Some(vec2(6, 4)), Some(vec2(2, 2))) IN
                 ~r.panic => Ended(r) = {} /\ Edges(r.s.graph) \subseteq Edges(graph)
              /\ port_mouseenter(S, id).s.graph = graph
              /\ port_mouseleave(S, id, Some(vec2(6, 4)), Some(vec2(2, 2))).s.graph = graph
        /\ \A p \in Points : move_connection(S, p).graph = graph
        /\ \A t \in Templates :
              Edges(create_node([S EXCEPT !.node_finder.is_showing = FALSE], t).s.graph)
                 = Edges(graph)

\* a snapped gesture over two ports of one type whose edge is not there yet:
\* the mouse-up inserts it and emits ConnectEventEnded
C34_Witness ==
    /\ ~panicked
    /\ event_listener = Some(Listeners("ConnectPort"))
    /\ SnappedLive
    /\ <<SnapInput, SnapOutput>> \notin Edges(graph)
    /\ port_mouseup(S).ret = <<ResponseConnectEventEnded(SnapOutput, SnapInput)>>
    /\ Edges(port_mouseup(S).s.graph) = Edges(graph) \cup {<<SnapInput, SnapOutput>>}

\* every node of the graph has a position and every port of the graph a
\* registry entry
Covered(s) ==
    /\ \A n \in sm_keys(s.graph.nodes) : sec_contains(s.node_positions, n)
    /\ \A i \in sm_keys(s.graph.inputs) : sec_contains(s.port_refs.input, i)
    /\ \A o \in sm_keys(s.graph.outputs) : sec_contains(s.port_refs.output, o)

\* C35: after any sequence of create_node, delete_node and gesture calls
\* every node of the graph has an entry in node_positions and every input and
\* output port an entry in the port registry, also after one more creation or
\* deletion, so the indexing done when the nodes are rendered does not fail.
C35_PositionsAndRegistryCover ==
    ~panicked =>
        /\ Covered(S)
        /\ ~render_nodes_panics(S)
        /\ \A t \in Templates :
              Covered(create_node(S, t).s) /\ ~render_nodes_panics(create_node(S, t).s)
        /\ \A n \in LiveNodes :
              ~delete_node(S, n).panic =>
                 Covered(delete_node(S, n).s) /\ ~render_nodes_panics(delete_node(S, n).s)

\* a node in a slot that an earlier, deleted node had: the position left by
\* the deleted node has given way to the new node's
C35_Witness ==
    /\ ~panicked
    /\ \E n \in LiveNodes :
          /\ n[2] > 1
          /\ sec_contains(node_positions, n)
          /\ InputsOf(graph, n) # {}
          /\ \A i \in InputsOf(graph, n) : sec_contains(port_refs.input, i)

\* C36: move_node, move_connection and scale_select_box called while
\* drag_state is None or holds another gesture change nothing (drag_state,
\* positions, selection, pan/zoom, graph, registry and finder are as before)
\* and move_node returns None.
C36_GuardedGestureSteps ==
    ~panicked =>
        \A p \in Points :
            /\ ~Dragging("MoveNode") => move_node(S, p) = Ok(S, None)
            /\ ~Dragging("ConnectPort") => move_connection(S, p) = S
            /\ ~Dragging("SelectBox") => scale_select_box(S, p) = S

\* the pan gesture is on, over a selected node with ports: the three steps
\* are called and none of them acts
C36_Witness ==
    /\ ~panicked
    /\ Dragging("Pan")
    /\ selected_nodes # {}
    /\ LiveInputs # {}
    /\ move_node(S, vec2(4, 2)).ret = None
    /\ move_node(S, vec2(4, 2)).s = S
    /\ move_connection(S, vec2(4, 2)) = S
    /\ scale_select_box(S, vec2(4, 2)) = S

\* C37: selection, the node-move and box-select operations,
\* open_node_finder, move_connection, the pan move and the wheel zoom leave
\* the graph (nodes, ports, Connections) as it was; start_connection,
\* move_connection and end_connection leave node_positions, the selection
\* and the pan/zoom as they were.
C37_ViewAndGraphFrames ==
    ~panicked =>
        /\ \A n \in LiveNodes, k \in BOOLEAN : selection(S, n, k).graph = graph
        /\ \A n \in LiveNodes, sh \in Shifts : start_moving_node(S, n, sh).graph = graph
        /\ end_moving_node(S).graph = graph
        /\ end_select_box(S).graph = graph
        /\ \A p \in FinderPoints : open_node_finder(S, p).graph = graph
        /\ \A p \in Points :
              /\ move_node(S, p).s.graph = graph
              /\ start_select_box(S, p).graph = graph
              /\ scale_select_box(S, p).graph = graph
              /\ move_connection(S, p).graph = graph
              /\ pan_mousemove(S, p).graph = graph
              /\ \A sn \in BOOLEAN : wheel(S, sn, p).graph = graph
              /\ move_connection(S, p).node_positions = node_positions
              /\ move_connection(S, p).selected_nodes = selected_nodes
              /\ move_connection(S, p).pan_zoom = pan_zoom
        /\ \A id \in LivePorts, c \in Centers, o \in Offsets :
              LET r == start_connection(S, id, c, o) IN
              /\ r.s.node_positions = node_positions
              /\ r.s.selected_nodes = selected_nodes
              /\ r.s.pan_zoom = pan_zoom
        /\ LET r == end_connection(S) IN
              /\ r.s.node_positions = node_positions
              /\ r.s.selected_nodes = selected_nodes
              /\ r.s.pan_zoom = pan_zoom

\* a snapped gesture over a selection that does not hold the node of the
\* input: end_connection changes the graph and leaves the selection; the
\* wheel changes the pan/zoom and selection changes the selection, neither
\* the graph
C37_Witness ==
    /\ ~panicked
    /\ SnappedLive
    /\ selected_nodes # {}
    /\ sm_value(graph.inputs, SnapInput).node \notin selected_nodes
    /\ end_connection(S).ret # None
    /\ end_connection(S).s.graph # graph
    /\ end_connection(S).s.selected_nodes = selected_nodes
    /\ wheel(S, TRUE, vec2(4, 2)).pan_zoom # pan_zoom
    /\ \E n \in LiveNodes : selection(S, n, FALSE).selected_nodes # selected_nodes

\* C38: start_connection on a connected input i takes its edge out of the
\* graph; an end_connection that then commits nothing (the free end was never
\* snapped, or was moved only) leaves Connections as they were less the edge
\* of i, and so does any end that returns None; an end that commits elsewhere
\* leaves i without an edge too.  Only a commit onto i connects it again.
C38_DroppedReconnect ==
    ~panicked =>
        \A i \in {k \in LiveInputs : sec_contains(graph.connections, k)} :
        \A c \in Centers, o \in Offsets :
            LET r1 == start_connection(S, Input(i), c, o)
                less == sec_remove(graph.connections, i)
            IN  /\ r1.ret = Some(<<sec_value(graph.connections, i), i>>)
                /\ r1.s.graph.connections = less
                /\ \A s2 \in {r1.s} \cup {move_connection(r1.s, p) : p \in Points} :
                      LET r2 == end_connection(s2) IN
                      /\ ~r2.panic
                      /\ r2.ret = None
                      /\ r2.s.graph.connections = less
                      /\ r2.s.drag_state = None
                /\ \A id \in LivePorts :
                      LET r2 == end_connection(
                                  [r1.s EXCEPT !.drag_state.val.c = to_id(@, id)])
                      IN  /\ (~r2.panic /\ r2.ret = None) => r2.s.graph.connections = less
                          /\ id # Input(i) => ~sec_contains(r2.s.graph.connections, i)

\* an input with an edge, grabbed and dropped in the open: the edge is gone
C38_Witness ==
    /\ ~panicked
    /\ \E i \in LiveInputs :
          /\ sec_contains(graph.connections, i)
          /\ LET r1 == start_connection(S, Input(i), Some(vec2(6, 4)), Some(vec2(2, 2)))
                 r2 == end_connection(move_connection(r1.s, vec2(4, 2)))
             IN  /\ r1.ret # None
                 /\ r2.ret = None
                 /\ ~sec_contains(r2.s.graph.connections, i)
                 /\ Edges(r2.s.graph) # Edges(graph)

Gestures == {"MoveNode", "ConnectPort", "SelectBox", "Pan"}

\* C40: the background ContextMenu at pos shows the node finder at pos; a
\* background mouse-down with the left or the middle button and the creation
\* of a node from the finder hide it (its position stays); no other event of
\* the component (another button, the wheel, node and port events, the
\* mousemove and mouseup of a gesture) changes the finder.
C40_FinderVisibility ==
    ~panicked =>
        /\ \A p \in FinderPoints :
              background_contextmenu(S, p).node_finder = [pos |-> p, is_showing |-> TRUE]
        /\ \A b \in {0, 1}, p \in Points, k \in BOOLEAN :
              background_mousedown(S, b, p, k).node_finder
                 = [pos |-> node_finder.pos, is_showing |-> FALSE]
        /\ \A t \in Templates :
              finder_callback(S, t).s.node_finder
                 = [pos |-> node_finder.pos, is_showing |-> FALSE]
        /\ \A p \in Points, k \in BOOLEAN :
              /\ background_mousedown(S, 2, p, k).node_finder = node_finder
              /\ wheel(S, k, p).node_finder = node_finder
              /\ \A g \in Gestures : drag_mousemove(S, g, p).s.node_finder = node_finder
        /\ \A g \in Gestures : drag_mouseup(S, g).s.node_finder = node_finder
        /\ \A n \in LiveNodes :
              /\ node_delete(S, n).s.node_finder = node_finder
              /\ \A sh \in Shifts, k \in BOOLEAN :
                    node_mousedown(S, n, sh, k).node_finder = node_finder
        /\ \A id \in LivePorts :
              /\ port_mousedown(S, id, Some(vec2(6, 4)), Some(vec2(2, 2))).s.node_finder
                    = node_finder
              /\ port_mouseenter(S, id).s.node_finder = node_finder
              /\ port_mouseleave(S, id, Some(vec2(6, 4)), Some(vec2(2, 2))).s.node_finder
                    = node_finder

\* the finder is showing at (2, 1) beside a node created from it earlier: a
\* template chosen now hides it, and so does the left button on the
\* background
C40_Witness ==
    /\ ~panicked
    /\ node_finder = [pos |-> vec2(2, 1), is_showing |-> TRUE]
    /\ LiveNodes # {}
    /\ ~finder_callback(S, "Add").s.node_finder.is_showing
    /\ ~background_mousedown(S, 0, vec2(0, 0), FALSE).node_finder.is_showing
    /\ node_mousedown(S, CHOOSE n \in LiveNodes : TRUE, vec2(2, 1), FALSE).node_finder.is_showing

=============================================================================
